---- MODULE Spec2Model ----
(***************************************************************************)
(* Model of the Temporalize QR payload codec: the Go encoder               *)
(* (cmd/generate/compress.go) with its round-trip verifier, and the        *)
(* decoder of the browser script (TypeScript).                             *)
(*                                                                         *)
(* Representation.  A string is a sequence of one-character strings.  A    *)
(* byte is a number 0..255.  An arbitrary-precision natural (Go big.Int,   *)
(* TypeScript bigint) is the big-endian sequence of its bytes without      *)
(* leading zero bytes (what big.Int.Bytes() returns), so zero is <<>>.  A  *)
(* 64-bit machine word (uint64 / int64) is a big-endian sequence of        *)
(* exactly 8 bytes; int64 is its two's-complement reading.                 *)
(***************************************************************************)
EXTENDS Integers, Sequences, FiniteSets, TLC

\* ------------------------------------------------------------ alphabets
base62Chars ==
  <<"0", "1", "2", "3", "4", "5", "6", "7", "8", "9", "A", "B", "C", "D", "E", "F", "G",
    "H", "I", "J", "K", "L", "M", "N", "O", "P", "Q", "R", "S", "T", "U", "V", "W", "X",
    "Y", "Z", "a", "b", "c", "d", "e", "f", "g", "h", "i", "j", "k", "l", "m", "n", "o",
    "p", "q", "r", "s", "t", "u", "v", "w", "x", "y", "z">>

base36Chars ==
  <<"0", "1", "2", "3", "4", "5", "6", "7", "8", "9", "A", "B", "C", "D", "E", "F", "G",
    "H", "I", "J", "K", "L", "M", "N", "O", "P", "Q", "R", "S", "T", "U", "V", "W", "X",
    "Y", "Z">>

base64Chars ==
  <<"A", "B", "C", "D", "E", "F", "G", "H", "I", "J", "K", "L", "M", "N", "O", "P", "Q",
    "R", "S", "T", "U", "V", "W", "X", "Y", "Z", "a", "b", "c", "d", "e", "f", "g", "h",
    "i", "j", "k", "l", "m", "n", "o", "p", "q", "r", "s", "t", "u", "v", "w", "x", "y",
    "z", "0", "1", "2", "3", "4", "5", "6", "7", "8", "9", "-", "_">>

\* The decimal digits strconv.ParseUint / FormatUint / FormatInt use in base 10.
decimalChars == <<"0", "1", "2", "3", "4", "5", "6", "7", "8", "9">>

\* ------------------------------------------------------------ sequences
\* The loops of the codec are written as `loop(st, n)`: n iterations of the loop
\* body on the loop state st.  The iterations are split in halves, which keeps
\* the depth of evaluation logarithmic in n.  TLC evaluates an operator's
\* argument when it is first used: comparing the state after the first half
\* with itself evaluates it before the second half starts.

Reverse(s) == [i \in 1..Len(s) |-> s[Len(s) + 1 - i]]

\* strings.Repeat(string(c), n)
Repeat(c, n) == [i \in 1..n |-> c]

\* strings.IndexRune / String.indexOf: 0-based position of c, -1 when absent.
IndexRune(alphabet, c) ==
  IF \E i \in 1..Len(alphabet) : alphabet[i] = c
  THEN (CHOOSE i \in 1..Len(alphabet) :
          alphabet[i] = c /\ \A j \in 1..(i - 1) : alphabet[j] # c) - 1
  ELSE -1

\* ------------------------------------------------------------ big naturals
\* Values that are used more than once are bound as operator parameters.

\* big.Int.SetBytes: leading zero bytes do not count.
StripZeros(b) ==
  IF \A i \in 1..Len(b) : b[i] = 0 THEN <<>>
  ELSE SubSeq(b, CHOOSE i \in 1..Len(b) : b[i] # 0 /\ \A j \in 1..(i - 1) : b[j] = 0,
              Len(b))

\* The arithmetic works on two bytes at a time: the low two bytes of b as a
\* number, the bytes above them, and a number below 2^16 as two bytes.
Low2(b) == b[Len(b) - 1] * 256 + b[Len(b)]
High(b) == SubSeq(b, 1, Len(b) - 2)
Bytes2(x) == <<x \div 256, x % 256>>

\* b * m + c for m <= 256 and c < 256 (val.Mul(val, base); val.Add(val, idx)).
RECURSIVE MulAddRaw(_, _, _)
MulAddRaw(b, m, c) ==
  IF b = <<>>
  THEN (IF c = 0 THEN <<>> ELSE MulAddRaw(<<>>, m, c \div 256) \o <<c % 256>>)
  ELSE IF Len(b) = 1
  THEN MulAddRaw(<<>>, m, (b[1] * m + c) \div 256) \o <<(b[1] * m + c) % 256>>
  ELSE MulAddRaw(High(b), m, (Low2(b) * m + c) \div 65536)
         \o Bytes2((Low2(b) * m + c) % 65536)

MulAdd(b, m, c) == StripZeros(MulAddRaw(b, m, c))

\* v.DivMod(v, base, mod) for a divisor d <= 256: schoolbook division from the
\* top byte, with remainder r < d carried down and quotient bytes q so far.
RECURSIVE DivModAcc(_, _, _, _)
DivModAcc(b, d, r, q) ==
  IF b = <<>> THEN [quo |-> StripZeros(q), rem |-> r]
  ELSE IF Len(b) % 2 = 1
  THEN DivModAcc(Tail(b), d, (r * 256 + b[1]) % d, Append(q, (r * 256 + b[1]) \div d))
  ELSE DivModAcc(SubSeq(b, 3, Len(b)), d, (r * 65536 + b[1] * 256 + b[2]) % d,
                 q \o Bytes2((r * 65536 + b[1] * 256 + b[2]) \div d))

DivMod(b, d) == DivModAcc(b, d, 0, <<>>)

\* Byte-wise a + b + c of two equally long byte strings; the carry out of the
\* top byte is dropped (arithmetic modulo 256^Len).
RECURSIVE AddBytes(_, _, _)
AddBytes(a, b, c) ==
  IF a = <<>> THEN <<>>
  ELSE IF Len(a) = 1 THEN <<(a[1] + b[1] + c) % 256>>
  ELSE AddBytes(High(a), High(b), (Low2(a) + Low2(b) + c) \div 65536)
         \o Bytes2((Low2(a) + Low2(b) + c) % 65536)

\* Bitwise complement of a byte string.
NotBytes(a) == [i \in 1..Len(a) |-> 255 - a[i]]

\* b as exactly w bytes: left-padded with zeros, or cut to its low w bytes.
ToWidth(b, w) ==
  IF Len(b) >= w THEN SubSeq(b, Len(b) - w + 1, Len(b))
  ELSE Repeat(0, w - Len(b)) \o b

BigMax(x, y) == IF x >= y THEN x ELSE y

BigAdd(a, b) ==
  StripZeros(AddBytes(ToWidth(a, BigMax(Len(a), Len(b)) + 1),
                      ToWidth(b, BigMax(Len(a), Len(b)) + 1), 0))

\* a - b for a >= b.
BigSub(a, b) ==
  StripZeros(AddBytes(ToWidth(a, BigMax(Len(a), Len(b))),
                      NotBytes(ToWidth(b, BigMax(Len(a), Len(b)))), 1))

\* a < b on naturals without leading zero bytes.
LexLess(a, b) == \E i \in 1..Len(a) : a[i] < b[i] /\ \A j \in 1..(i - 1) : a[j] = b[j]

BigLess(a, b) ==
  IF Len(a) # Len(b) THEN Len(a) < Len(b) ELSE LexLess(a, b)

\* ------------------------------------------------------------ 64-bit words
\* uint64(x): the low 64 bits of a natural as an 8-byte word.
Word64(b) == ToWidth(b, 8)

\* The natural an 8-byte word holds when read as uint64.
WordNat(w) == StripZeros(w)

\* x < 0 for the int64 reading of a word: the sign bit is bit 7 of the top byte.
IsNeg64(w) == w[1] >= 128

\* int64 subtraction and addition wrap modulo 2^64 (Go spec, integer overflow).
Sub64(a, b) == AddBytes(a, NotBytes(b), 1)
Add64(a, b) == AddBytes(a, b, 0)

\* uint64(x) << 1 and ux >> 1
Shl64(w) == AddBytes(w, w, 0)
Shr64(w) == ToWidth(DivModAcc(w, 2, 0, <<>>).quo, 8)

Zero64 == Repeat(0, 8)

\* ------------------------------------------------------------ BaseN codec
\* Mutant of decodeBaseNFrom: an unknown character is taken as digit 0.
decodeBaseNFromCoercing(s, alphabet, st) ==
  IF st.panic THEN st
  ELSE IF IndexRune(alphabet, s[st.i]) = -1
  THEN [i |-> st.i + 1, panic |-> FALSE, val |-> MulAdd(st.val, Len(alphabet), 0)]
  ELSE [i |-> st.i + 1, panic |-> FALSE,
        val |-> MulAdd(st.val, Len(alphabet), IndexRune(alphabet, s[st.i]))]

\* decodeBaseN (compress.go): fold left to right, val = val*base + idx; an
\* unknown character panics.
\* One iteration of `for _, c := range s`, on the character at position st.i.
decodeBaseNFrom(s, alphabet, st) ==
  IF st.panic THEN st
  ELSE IF IndexRune(alphabet, s[st.i]) = -1 THEN [i |-> st.i, panic |-> TRUE, val |-> <<>>]
  ELSE [i |-> st.i + 1, panic |-> FALSE,
        val |-> MulAdd(st.val, Len(alphabet), IndexRune(alphabet, s[st.i]))]

decodeBaseN(s, alphabet) ==
  LET RECURSIVE loop(_, _)
      loop(st, n) ==
        IF n <= 1 THEN (IF n = 1 THEN decodeBaseNFrom(s, alphabet, st) ELSE st)
        ELSE LET rest(mid) == IF mid = mid THEN loop(mid, n - n \div 2) ELSE mid
             IN  rest(loop(st, n \div 2))
      result(st) == [panic |-> st.panic, val |-> st.val]
  IN  result(loop([i |-> 1, panic |-> FALSE, val |-> <<>>], Len(s)))

\* encodeBaseN (compress.go): remainders least-significant digit first, then
\* reversed; zero is the alphabet's first symbol once.
\* One iteration of `for v.Cmp(zero) > 0`; the state is left alone once the
\* loop has ended.
encodeDigits(st, alphabet) ==
  IF st.v = <<>> THEN st
  ELSE LET digit(dm) == [v |-> dm.quo, res |-> Append(st.res, alphabet[dm.rem + 1])]
       IN  digit(DivMod(st.v, Len(alphabet)))

\* Mutant of encodeBaseN: the digits are not reversed.
encodeBaseNUnreversed(val, alphabet) ==
  IF val = <<>> THEN <<alphabet[1]>>
  ELSE LET RECURSIVE loop(_, _)
           loop(st, n) ==
             IF n <= 1 THEN (IF n = 1 THEN encodeDigits(st, alphabet) ELSE st)
             ELSE LET rest(mid) == IF mid = mid THEN loop(mid, n - n \div 2) ELSE mid
                  IN  rest(loop(st, n \div 2))
       IN  loop([v |-> val, res |-> <<>>], 3 * Len(val)).res

\* A value of n bytes has at most 3n digits in a base of 10 or more, so 3n
\* iterations run the loop to its end.
encodeBaseN(val, alphabet) ==
  IF val = <<>> THEN <<alphabet[1]>>
  ELSE LET RECURSIVE loop(_, _)
           loop(st, n) ==
             IF n <= 1 THEN (IF n = 1 THEN encodeDigits(st, alphabet) ELSE st)
             ELSE LET rest(mid) == IF mid = mid THEN loop(mid, n - n \div 2) ELSE mid
                  IN  rest(loop(st, n \div 2))
       IN  Reverse(loop([v |-> val, res |-> <<>>], 3 * Len(val)).res)

\* padString (compress.go)
padString(s, length, padChar) ==
  IF Len(s) >= length THEN s
  ELSE Repeat(padChar, length - Len(s)) \o s

\* ------------------------------------------------------------ strconv
\* strconv.ParseUint(s, 10, 64) as compress calls it: a syntax error on the
\* empty string or a non-digit, a range error above 2^64-1.
ParseUint(s) ==
  LET parsed(d) ==
        IF s = <<>> \/ d.panic THEN [err |-> "syntax", val |-> Zero64]
        ELSE IF Len(d.val) > 8 THEN [err |-> "range", val |-> Zero64]
        ELSE [err |-> "", val |-> Word64(d.val)]
  IN  parsed(decodeBaseN(s, decimalChars))

\* strconv.FormatUint(v, 10) of a uint64 word.
FormatUint(w) == encodeBaseN(WordNat(w), decimalChars)

\* strconv.FormatInt(v, 10) of an int64 word: the magnitude after a minus sign.
FormatInt(w) ==
  IF IsNeg64(w) THEN <<"-">> \o encodeBaseN(WordNat(Sub64(Zero64, w)), decimalChars)
  ELSE encodeBaseN(WordNat(w), decimalChars)

\* ------------------------------------------------------------ encoding/binary
\* binary.PutUvarint: 7 bits per byte, least-significant group first, bit 7 set
\* on every byte but the last.
RECURSIVE PutUvarintNat(_)
PutUvarintNat(x) ==
  IF x = <<>> THEN <<0>>
  ELSE IF Len(x) = 1 /\ x[1] < 128 THEN <<x[1]>>
  ELSE LET step(dm) == <<dm.rem + 128>> \o PutUvarintNat(dm.quo)
       IN  step(DivMod(x, 128))

PutUvarint(w) == PutUvarintNat(WordNat(w))

\* Mutant of PutVarint: the delta is written as its two's-complement word, with
\* no zig-zag mapping.
PutVarintPlain(w) == PutUvarint(w)

\* binary.PutVarint: ux := uint64(x) << 1; if x < 0 { ux = ^ux }.
PutVarint(w) ==
  IF IsNeg64(w) THEN PutUvarint(NotBytes(Shl64(w))) ELSE PutUvarint(Shl64(w))

\* binary.Uvarint(buf): (value, n); n = 0 when buf ends inside the varint,
\* n = -(i+1) when the value overflows 64 bits (an 11th byte, or a 10th byte
\* above 1).  i is the 0-based position in buf.
RECURSIVE UvarintFrom(_, _)
UvarintFrom(buf, i) ==
  IF i >= Len(buf) THEN [val |-> <<>>, n |-> 0]
  ELSE IF i = 10 THEN [val |-> <<>>, n |-> -(i + 1)]
  ELSE IF buf[i + 1] < 128
       THEN IF i = 9 /\ buf[i + 1] > 1 THEN [val |-> <<>>, n |-> -(i + 1)]
            ELSE [val |-> StripZeros(<<buf[i + 1]>>), n |-> i + 1]
       ELSE LET group(r) ==
                  IF r.n <= 0 THEN r
                  ELSE [val |-> MulAdd(r.val, 128, buf[i + 1] - 128), n |-> r.n]
            IN  group(UvarintFrom(buf, i + 1))

Uvarint(buf) ==
  LET word(r) == [val |-> Word64(r.val), n |-> r.n] IN word(UvarintFrom(buf, 0))

\* binary.Varint: x := int64(ux >> 1); if ux&1 != 0 { x = ^x }.
Varint(buf) ==
  LET zigzag(u) ==
        [val |-> IF u.val[8] % 2 = 1 THEN NotBytes(Shr64(u.val)) ELSE Shr64(u.val),
         n |-> u.n]
  IN  zigzag(Uvarint(buf))

\* ------------------------------------------------------------ Go encoder
debugCompression == TRUE

\* make([]byte, w); copy(padded[w-len(b):], b)
PadLeft(b, w) == Repeat(0, w - Len(b)) \o b

\* x | 0x80 on a byte
SetBit7(x) == IF x >= 128 THEN x ELSE x + 128

Group(err, bytes) == [err |-> err, bytes |-> bytes]

\* Mutant of setExplicit: the explicit bit is never set.
setExplicitNever(explicit, paddedAmzAlb) == paddedAmzAlb

\* if explicit { paddedAmzAlb[0] |= 1 << 7 }
setExplicit(explicit, paddedAmzAlb) ==
  IF explicit THEN <<SetBit7(paddedAmzAlb[1])>> \o Tail(paddedAmzAlb) ELSE paddedAmzAlb

\* compress, "Amazon Album + Explicit (7 bytes)"
amazonAlbumGroup(explicit, amazonAlbum) ==
  LET packed(d) ==
        IF d.panic THEN Group("panic: invalid char", <<>>)
        ELSE IF Len(d.val) > 7 THEN Group("amazon album too long", <<>>)
        ELSE Group("", setExplicit(explicit, PadLeft(d.val, 7)))
  IN  packed(IF amazonAlbum # <<>> THEN decodeBaseN(amazonAlbum, base36Chars)
             ELSE [panic |-> FALSE, val |-> <<>>])

\* Mutant of amazonTrackGroup: a track of more than ten characters is refused.
amazonTrackGroupTenChars(amazonTrack) ==
  LET packed(d) ==
        IF d.panic THEN Group("panic: invalid char", <<>>)
        ELSE IF Len(amazonTrack) > 10 THEN Group("amazon track too long", <<>>)
        ELSE Group("", PadLeft(d.val, 7))
  IN  IF amazonTrack # <<>> THEN packed(decodeBaseN(amazonTrack, base36Chars))
      ELSE Group("", Repeat(0, 7))

\* compress, "Amazon Track (7 bytes)"
amazonTrackGroup(amazonTrack) ==
  LET packed(d) ==
        IF d.panic THEN Group("panic: invalid char", <<>>)
        ELSE IF Len(d.val) > 7 THEN Group("amazon track too long", <<>>)
        ELSE Group("", PadLeft(d.val, 7))
  IN  IF amazonTrack # <<>> THEN packed(decodeBaseN(amazonTrack, base36Chars))
      ELSE Group("", Repeat(0, 7))

\* compress, "Apple Album (Uvarint)": the parsed value is kept for the delta.
appleAlbumGroup(appleAlbum) ==
  LET packed(p) ==
        IF p.err # "" THEN [err |-> "invalid apple album id", bytes |-> <<>>, val |-> Zero64]
        ELSE [err |-> "", bytes |-> PutUvarint(p.val), val |-> p.val]
  IN  packed(IF appleAlbum # <<>> THEN ParseUint(appleAlbum)
             ELSE [err |-> "", val |-> Zero64])

\* compress, "Apple Track (Varint Delta)": delta := int64(appTrkVal) - int64(appAlbVal)
appleTrackGroup(appAlbVal, appleTrack) ==
  LET packed(p) ==
        IF p.err # "" THEN Group("invalid apple track id", <<>>)
        ELSE Group("", PutVarint(Sub64(p.val, appAlbVal)))
  IN  packed(IF appleTrack # <<>> THEN ParseUint(appleTrack)
             ELSE [err |-> "", val |-> Zero64])

\* Mutant of spotifyGroup: the slot is taken to be 16 bytes wide.
spotifyGroupNarrow(spotify) ==
  IF spotify # <<>>
  THEN IF decodeBaseN(spotify, base62Chars).panic THEN Group("panic: invalid char", <<>>)
       ELSE IF Len(decodeBaseN(spotify, base62Chars).val) > 16
       THEN Group("spotify id too long", <<>>)
       ELSE Group("", PadLeft(decodeBaseN(spotify, base62Chars).val, 16))
  ELSE Group("", Repeat(0, 16))

\* Mutant of spotifyGroup: no length check, the value cut to its low 17 bytes.
spotifyGroupTruncating(spotify) ==
  IF spotify # <<>>
  THEN IF decodeBaseN(spotify, base62Chars).panic THEN Group("panic: invalid char", <<>>)
       ELSE Group("", ToWidth(decodeBaseN(spotify, base62Chars).val, 17))
  ELSE Group("", Repeat(0, 17))

\* compress, "Spotify (17 bytes)"
spotifyGroup(spotify) ==
  LET packed(d) ==
        IF d.panic THEN Group("panic: invalid char", <<>>)
        ELSE IF Len(d.val) > 17 THEN Group("spotify id too long", <<>>)
        ELSE Group("", PadLeft(d.val, 17))
  IN  IF spotify # <<>> THEN packed(decodeBaseN(spotify, base62Chars))
      ELSE Group("", Repeat(0, 17))

\* Mutant of youtubeGroup: the slot of an absent identifier is one byte too wide.
youtubeGroupWideEmpty(youtube) ==
  IF youtube # <<>>
  THEN IF decodeBaseN(youtube, base64Chars).panic THEN Group("panic: invalid char", <<>>)
       ELSE IF Len(decodeBaseN(youtube, base64Chars).val) > 9
       THEN Group("youtube id too long", <<>>)
       ELSE Group("", PadLeft(decodeBaseN(youtube, base64Chars).val, 9))
  ELSE Group("", Repeat(0, 10))

\* compress, "YouTube (9 bytes)"
youtubeGroup(youtube) ==
  LET packed(d) ==
        IF d.panic THEN Group("panic: invalid char", <<>>)
        ELSE IF Len(d.val) > 9 THEN Group("youtube id too long", <<>>)
        ELSE Group("", PadLeft(d.val, 9))
  IN  IF youtube # <<>> THEN packed(decodeBaseN(youtube, base64Chars))
      ELSE Group("", Repeat(0, 9))

\* Mutant of Packed: a returned buffer carries one more byte at its end.
PackedTrailing(err, buf) == [err |-> err, buf |-> IF err = "" THEN buf \o <<0>> ELSE buf]

\* What compress returns: the buffer and an empty err, or a nil buffer and the
\* error (a panic of decodeBaseN is recorded as an err starting with "panic").
Packed(err, buf) == [err |-> err, buf |-> buf]

\* compress up to the verification step: the groups in order, each appended to
\* buf, the first failure returning at once.
pack(explicit, amazonAlbum, amazonTrack, appleAlbum, appleTrack, spotify, youtube) ==
  LET youtubeStep(buf, g6) ==
        IF g6.err # "" THEN Packed(g6.err, <<>>) ELSE Packed("", buf \o g6.bytes)
      spotifyStep(buf, g5) ==
        IF g5.err # "" THEN Packed(g5.err, <<>>)
        ELSE youtubeStep(buf \o g5.bytes, youtubeGroup(youtube))
      appleTrackStep(buf, g4) ==
        IF g4.err # "" THEN Packed(g4.err, <<>>)
        ELSE spotifyStep(buf \o g4.bytes, spotifyGroup(spotify))
      appleAlbumStep(buf, g3) ==
        IF g3.err # "" THEN Packed(g3.err, <<>>)
        ELSE appleTrackStep(buf \o g3.bytes, appleTrackGroup(g3.val, appleTrack))
      amazonTrackStep(buf, g2) ==
        IF g2.err # "" THEN Packed(g2.err, <<>>)
        ELSE appleAlbumStep(buf \o g2.bytes, appleAlbumGroup(appleAlbum))
      amazonAlbumStep(g1) ==
        IF g1.err # "" THEN Packed(g1.err, <<>>)
        ELSE amazonTrackStep(g1.bytes, amazonTrackGroup(amazonTrack))
  IN  amazonAlbumStep(amazonAlbumGroup(explicit, amazonAlbum))

\* ------------------------------------------------------------ Go decoder
Decoded(err, explicit, amzAlb, amzTrk, appAlb, appTrk, spot, yt) ==
  [err |-> err, explicit |-> explicit, amazonAlbum |-> amzAlb, amazonTrack |-> amzTrk,
   appleAlbum |-> appAlb, appleTrack |-> appTrk, spotify |-> spot, youtube |-> yt]

DecodeError(err) == Decoded(err, FALSE, <<>>, <<>>, <<>>, <<>>, <<>>, <<>>)

\* data[lo:hi] with Go's 0-based, half-open bounds
Slice(data, lo, hi) == SubSeq(data, lo + 1, hi)

\* Mutant of fieldString: a zero value is encoded and padded like any other.
fieldStringOfZero(val, alphabet, length) ==
  padString(encodeBaseN(val, alphabet), length, alphabet[1])

\* encodeBaseN and padString of a nonzero value, "" for zero
\* (if val.Sign() > 0 { ... = padString(encodeBaseN(val, alphabet), length, alphabet[0]) })
fieldString(val, alphabet, length) ==
  IF val # <<>> THEN padString(encodeBaseN(val, alphabet), length, alphabet[1])
  ELSE <<>>

\* val := new(big.Int).SetBytes(b) and the string it stands for
fixedField(b, alphabet, length) == fieldString(StripZeros(b), alphabet, length)

\* Mutant of amzAlbStorage: amzAlbBytes := data[idx : idx+7], a slice that shares
\* the storage of data.
amzAlbStorageShared == "shared"

\* amzAlbBytes := make([]byte, 7); copy(amzAlbBytes, data[idx:idx+7]): the seven
\* bytes have storage of their own.
amzAlbStorage == "own"

\* The contents of data once `amzAlbBytes[0] &= 0x7F` has run on seven bytes
\* held in that storage.
dataAfter(storage, data) ==
  IF Len(data) < 7 \/ storage = "own" THEN data
  ELSE <<data[1] % 128>> \o Tail(data)

\* The contents of data when decompress (compress.go) returns.
dataAfterDecompress(data) == dataAfter(amzAlbStorage, data)

\* Mutant of clearExplicit: the explicit bit is left in the album value.
clearExplicitKept(amzAlbBytes) == amzAlbBytes

\* amzAlbBytes[0] &= 0x7F
clearExplicit(amzAlbBytes) == <<amzAlbBytes[1] % 128>> \o Tail(amzAlbBytes)

\* appAlb: FormatUint when appAlbVal > 0
appleAlbumString(appAlbVal) ==
  IF appAlbVal # Zero64 THEN FormatUint(appAlbVal) ELSE <<>>

\* appTrk: appTrkVal := int64(appAlbVal) + delta; FormatInt when appTrkVal > 0
appleTrackString(appTrkVal) ==
  IF appTrkVal # Zero64 /\ ~IsNeg64(appTrkVal) THEN FormatInt(appTrkVal) ELSE <<>>

\* Mutant of youtubeBytes: data[idx:], the group reaches to the end of the
\* buffer.
youtubeBytesToEnd(data, idx) == Slice(data, idx, Len(data))

\* data[idx : idx+9], the YouTube group
youtubeBytes(data, idx) == Slice(data, idx, idx + 9)

\* decompress (compress.go); idx is the running cursor.
decompress(data) ==
  LET youtubeStep(explicit, amzAlb, amzTrk, appAlb, appTrk, spot, idx) ==
        IF idx + 9 > Len(data) THEN DecodeError("short data yt")
        ELSE Decoded("", explicit, amzAlb, amzTrk, appAlb, appTrk, spot,
                     fixedField(youtubeBytes(data, idx), base64Chars, 11))
      spotifyStep(explicit, amzAlb, amzTrk, appAlb, appTrk, idx) ==
        IF idx + 17 > Len(data) THEN DecodeError("short data spot")
        ELSE youtubeStep(explicit, amzAlb, amzTrk, appAlb, appTrk,
                         fixedField(Slice(data, idx, idx + 17), base62Chars, 22), idx + 17)
      appleTrackStep(explicit, amzAlb, amzTrk, appAlbVal, idx, v) ==
        IF v.n <= 0 THEN DecodeError("bad varint app trk")
        ELSE spotifyStep(explicit, amzAlb, amzTrk, appleAlbumString(appAlbVal),
                         appleTrackString(Add64(appAlbVal, v.val)), idx + v.n)
      appleAlbumStep(explicit, amzAlb, amzTrk, idx, u) ==
        IF u.n <= 0 THEN DecodeError("bad varint app alb")
        ELSE appleTrackStep(explicit, amzAlb, amzTrk, u.val, idx + u.n,
                            Varint(Slice(data, idx + u.n, Len(data))))
      amazonTrackStep(explicit, amzAlb, idx) ==
        IF idx + 7 > Len(data) THEN DecodeError("short data amz trk")
        ELSE appleAlbumStep(explicit, amzAlb,
                            fixedField(Slice(data, idx, idx + 7), base36Chars, 10),
                            idx + 7, Uvarint(Slice(data, idx + 7, Len(data))))
      amazonAlbumStep(amzAlbBytes) ==
        amazonTrackStep(amzAlbBytes[1] >= 128,
                        fixedField(clearExplicit(amzAlbBytes), base36Chars, 10), 7)
  IN  IF Len(data) < 7 THEN DecodeError("short data")
      ELSE amazonAlbumStep(Slice(data, 0, 7))

\* Mutant of checkField: the decoded string is compared with the unpadded original.
checkFieldUnpadded(original, decoded, padLen, padChar) == decoded = original

\* verifyCompression's check closure: the expected string is the original,
\* padded when it is non-empty and padLen > 0.
checkField(original, decoded, padLen, padChar) ==
  IF original # <<>> /\ padLen > 0
  THEN decoded = padString(original, padLen, padChar)
  ELSE decoded = original

\* verifyCompression (compress.go): "" when the buffer decodes to the input.
verifyCompression(buf, explicit, amzAlb, amzTrk, appAlb, appTrk, spot, yt) ==
  LET verify(d) ==
        IF d.err # "" THEN "sanity check failed: decompression error"
        ELSE IF d.explicit # explicit THEN "sanity check failed: explicit mismatch"
        ELSE IF ~checkField(amzAlb, d.amazonAlbum, 10, base36Chars[1])
             THEN "sanity check failed: AmazonAlbum mismatch"
        ELSE IF ~checkField(amzTrk, d.amazonTrack, 10, base36Chars[1])
             THEN "sanity check failed: AmazonTrack mismatch"
        ELSE IF ~checkField(appAlb, d.appleAlbum, 0, "")
             THEN "sanity check failed: AppleAlbum mismatch"
        ELSE IF ~checkField(appTrk, d.appleTrack, 0, "")
             THEN "sanity check failed: AppleTrack mismatch"
        ELSE IF ~checkField(spot, d.spotify, 22, base62Chars[1])
             THEN "sanity check failed: Spotify mismatch"
        ELSE IF ~checkField(yt, d.youtube, 11, base64Chars[1])
             THEN "sanity check failed: YouTube mismatch"
        ELSE ""
  IN  verify(decompress(buf))

\* Mutant of compress: the verification step is skipped (debugCompression off).
compressUnverified(explicit, amazonAlbum, amazonTrack, appleAlbum, appleTrack, spotify, youtube) ==
  pack(explicit, amazonAlbum, amazonTrack, appleAlbum, appleTrack, spotify, youtube)

\* compress (compress.go): pack, then verify when debugCompression is set.
compress(explicit, amazonAlbum, amazonTrack, appleAlbum, appleTrack, spotify, youtube) ==
  LET verified(p, err) ==
        IF err # "" THEN Packed(err, <<>>) ELSE Packed("", dataAfterDecompress(p.buf))
      checked(p) ==
        IF p.err # "" THEN p
        ELSE IF debugCompression
        THEN verified(p, verifyCompression(p.buf, explicit, amazonAlbum, amazonTrack,
                                           appleAlbum, appleTrack, spotify, youtube))
        ELSE p
  IN  checked(pack(explicit, amazonAlbum, amazonTrack, appleAlbum, appleTrack,
                   spotify, youtube))

\* ------------------------------------------------------------ browser decoder
\* decodeBaseN (browser script): val = val * base + idx; an unknown character
\* throws.  One iteration of the loop, on the character at position st.i.
webDecodeBaseNFrom(s, alphabet, st) ==
  IF st.thrown THEN st
  ELSE IF IndexRune(alphabet, s[st.i]) = -1 THEN [i |-> st.i, thrown |-> TRUE, val |-> <<>>]
  ELSE [i |-> st.i + 1, thrown |-> FALSE,
        val |-> MulAdd(st.val, Len(alphabet), IndexRune(alphabet, s[st.i]))]

webDecodeBaseN(s, alphabet) ==
  LET RECURSIVE loop(_, _)
      loop(st, n) ==
        IF n <= 1 THEN (IF n = 1 THEN webDecodeBaseNFrom(s, alphabet, st) ELSE st)
        ELSE LET rest(mid) == IF mid = mid THEN loop(mid, n - n \div 2) ELSE mid
             IN  rest(loop(st, n \div 2))
      result(st) == [thrown |-> st.thrown, val |-> st.val]
  IN  result(loop([i |-> 1, thrown |-> FALSE, val |-> <<>>], Len(s)))

\* encodeBaseN (browser script): res = alphabet[mod] + res while val > 0n.
\* One iteration of the loop; the state is left alone once the loop has ended.
webEncodeDigits(st, alphabet) ==
  IF st.val = <<>> THEN st
  ELSE LET digit(dm) == [val |-> dm.quo, res |-> <<alphabet[dm.rem + 1]>> \o st.res]
       IN  digit(DivMod(st.val, Len(alphabet)))

\* 3n iterations run the loop on a value of n bytes to its end.
webEncodeBaseN(val, alphabet) ==
  IF val = <<>> THEN <<alphabet[1]>>
  ELSE LET RECURSIVE loop(_, _)
           loop(st, n) ==
             IF n <= 1 THEN (IF n = 1 THEN webEncodeDigits(st, alphabet) ELSE st)
             ELSE LET rest(mid) == IF mid = mid THEN loop(mid, n - n \div 2) ELSE mid
                  IN  rest(loop(st, n \div 2))
       IN  loop([val |-> val, res |-> <<>>], 3 * Len(val)).res

\* padString (browser script): while (s.length < length) s = padChar + s; at most
\* `length` iterations.
webPadString(s, length, padChar) ==
  LET each(t) == IF Len(t) < length THEN <<padChar>> \o t ELSE t
      RECURSIVE loop(_, _)
      loop(st, n) ==
        IF n <= 1 THEN (IF n = 1 THEN each(st) ELSE st)
        ELSE LET rest(mid) == IF mid = mid THEN loop(mid, n - n \div 2) ELSE mid
             IN  rest(loop(st, n \div 2))
  IN  loop(s, length)

\* bytesToBigInt (browser script): val = (val << 8n) | BigInt(b).
\* One iteration of `for (const b of bytes)`, on the byte at position st.i.
bytesToBigIntFrom(bytes, st) ==
  [i |-> st.i + 1, val |-> MulAdd(st.val, 256, bytes[st.i])]

bytesToBigInt(bytes) ==
  LET RECURSIVE loop(_, _)
      loop(st, n) ==
        IF n <= 1 THEN (IF n = 1 THEN bytesToBigIntFrom(bytes, st) ELSE st)
        ELSE LET rest(mid) == IF mid = mid THEN loop(mid, n - n \div 2) ELSE mid
             IN  rest(loop(st, n \div 2))
  IN  loop([i |-> 1, val |-> <<>>], Len(bytes)).val

\* readUvarint (browser script): bigint accumulation with no 64-bit limit; running off
\* the buffer throws.  i is the 0-based loop index.
RECURSIVE readUvarintFrom(_, _, _)
readUvarintFrom(bytes, offset, i) ==
  IF offset + i >= Len(bytes) THEN [thrown |-> TRUE, val |-> <<>>, n |-> 0]
  ELSE IF bytes[offset + i + 1] < 128
       THEN [thrown |-> FALSE, val |-> StripZeros(<<bytes[offset + i + 1]>>), n |-> i + 1]
       ELSE LET group(r) ==
                  IF r.thrown THEN r
                  ELSE [thrown |-> FALSE,
                        val |-> MulAdd(r.val, 128, bytes[offset + i + 1] - 128),
                        n |-> r.n]
            IN  group(readUvarintFrom(bytes, offset, i + 1))

readUvarint(bytes, offset) == readUvarintFrom(bytes, offset, 0)

\* readVarint (browser script): x = ux >> 1n; if (ux & 1n) x = ~x, that is -(x + 1).
\* A signed bigint is a sign and a magnitude.
readVarint(bytes, offset) ==
  LET zigzag(u, dm) ==
        [thrown |-> u.thrown, n |-> u.n, neg |-> dm.rem = 1,
         mag |-> IF dm.rem = 1 THEN BigAdd(dm.quo, <<1>>) ELSE dm.quo]
      halved(u) == zigzag(u, DivMod(u.val, 2))
  IN  halved(readUvarint(bytes, offset))

\* BigInt(appleAlbum || 0): the decimal string parsed back, 0n for "".
webBigInt(s) == IF s = <<>> THEN <<>> ELSE decodeBaseN(s, decimalChars).val

\* the fixed groups of decompress (browser script)
webFieldString(val, alphabet, length) ==
  IF val # <<>> THEN webPadString(webEncodeBaseN(val, alphabet), length, alphabet[1])
  ELSE <<>>

webFixedField(bytes, alphabet, length) ==
  webFieldString(bytesToBigInt(bytes), alphabet, length)

\* const amzAlbBytes = data.slice(idx, idx + 7): a new array.
webAmzAlbStorage == "own"

\* The contents of data when the browser's decompress returns or throws.
dataAfterWebDecompress(data) == dataAfter(webAmzAlbStorage, data)

\* Mutant of webClearExplicit: the explicit bit stays in the album bytes.
webClearExplicitKept(amzAlbBytes) == amzAlbBytes

\* amzAlbBytes[0] &= 0x7F (browser script)
webClearExplicit(amzAlbBytes) == <<amzAlbBytes[1] % 128>> \o Tail(amzAlbBytes)

\* appTrkVal = BigInt(appleAlbum || 0) + delta; toString() when appTrkVal > 0n
webAppleTrack(album, delta) ==
  IF delta.neg
  THEN IF BigLess(delta.mag, album)
       THEN webEncodeBaseN(BigSub(album, delta.mag), decimalChars) ELSE <<>>
  ELSE IF BigAdd(album, delta.mag) # <<>>
       THEN webEncodeBaseN(BigAdd(album, delta.mag), decimalChars) ELSE <<>>

\* decompress (browser script); a thrown Error is the err of the result.
webDecompress(data) ==
  LET youtubeStep(explicit, amazonAlbum, amazonTrack, appleAlbum, appleTrack, spotify, idx) ==
        IF idx + 9 > Len(data) THEN DecodeError("short data yt")
        ELSE Decoded("", explicit, amazonAlbum, amazonTrack, appleAlbum, appleTrack, spotify,
                     webFixedField(Slice(data, idx, idx + 9), base64Chars, 11))
      spotifyStep(explicit, amazonAlbum, amazonTrack, appleAlbum, appleTrack, idx) ==
        IF idx + 17 > Len(data) THEN DecodeError("short data spot")
        ELSE youtubeStep(explicit, amazonAlbum, amazonTrack, appleAlbum, appleTrack,
                         webFixedField(Slice(data, idx, idx + 17), base62Chars, 22), idx + 17)
      appleTrackStep(explicit, amazonAlbum, amazonTrack, appleAlbum, idx, v) ==
        IF v.thrown THEN DecodeError("buffer overflow")
        ELSE spotifyStep(explicit, amazonAlbum, amazonTrack, appleAlbum,
                         webAppleTrack(webBigInt(appleAlbum), v), idx + v.n)
      appleAlbumRead(explicit, amazonAlbum, amazonTrack, appleAlbum, idx) ==
        appleTrackStep(explicit, amazonAlbum, amazonTrack, appleAlbum, idx,
                       readVarint(data, idx))
      appleAlbumStep(explicit, amazonAlbum, amazonTrack, idx, u) ==
        IF u.thrown THEN DecodeError("buffer overflow")
        ELSE appleAlbumRead(explicit, amazonAlbum, amazonTrack,
                              IF u.val # <<>> THEN webEncodeBaseN(u.val, decimalChars)
                              ELSE <<>>,
                              idx + u.n)
      amazonTrackStep(explicit, amazonAlbum, idx) ==
        IF idx + 7 > Len(data) THEN DecodeError("short data amz trk")
        ELSE appleAlbumStep(explicit, amazonAlbum,
                            webFixedField(Slice(data, idx, idx + 7), base36Chars, 10),
                            idx + 7, readUvarint(data, idx + 7))
      amazonAlbumStep(amzAlbBytes) ==
        amazonTrackStep(amzAlbBytes[1] >= 128,
                        webFixedField(webClearExplicit(amzAlbBytes), base36Chars, 10), 7)
  IN  IF Len(data) < 7 THEN DecodeError("short data")
      ELSE amazonAlbumStep(Slice(data, 0, 7))

\* ------------------------------------------------------------ inputs
\* Number of fields of an input tuple that may differ from the reference tuple.
MaxVaried == 2

Fields ==
  {"explicit", "amazonAlbum", "amazonTrack", "appleAlbum", "appleTrack", "spotify", "youtube"}

IdFields == Fields \ {"explicit"}

\* The reference tuple: one well-formed identifier of canonical length per field.
Scenario ==
  [explicit    |-> TRUE,
   amazonAlbum |-> <<"B", "0", "0", "0", "0", "0", "2", "U", "J", "E">>,
   amazonTrack |-> <<"B", "0", "0", "0", "0", "0", "2", "U", "J", "F">>,
   appleAlbum  |-> <<"1", "4", "4", "0", "8", "5", "7", "7", "8", "1">>,
   appleTrack  |-> <<"1", "4", "4", "0", "8", "5", "7", "8", "1", "7">>,
   spotify     |-> <<"4", "c", "O", "d", "K", "2", "w", "G", "L", "E", "T", "K", "B", "W",
                     "3", "P", "v", "g", "P", "W", "q", "T">>,
   youtube     |-> <<"d", "Q", "w", "4", "w", "9", "W", "g", "X", "c", "Q">>]

\* Other values a field may take: absent, short (to be padded), zero-valued,
\* the largest of canonical length, too long for the slot, outside the alphabet.
AmazonAlbums ==
  { <<>>,
    <<"1">>,
    <<"0">>,
    Repeat("Z", 10),
    Repeat("Z", 12),
    <<"9", "U", "R", "5", "4", "U", "T", "4", "9", "V", "K">>,
    <<"J", "P", "I", "A", "9", "P", "M", "8", "J", "R", "3">>,
    <<"0", "0", "0", "0", "0", "0", "0", "0", "0", "0", "1">>,
    <<"b">> }

AmazonTracks ==
  { <<>>,
    <<"Z">>,
    Repeat("Z", 10),
    Repeat("Z", 12) }

\* 2^63 + 5, 0, a non-decimal string and 2^64 among the albums
AppleAlbums ==
  { <<>>,
    <<"1", "2", "3", "4", "5", "6">>,
    <<"9", "2", "2", "3", "3", "7", "2", "0", "3", "6", "8", "5", "4", "7", "7", "5", "8",
      "1", "3">>,
    <<"0">>,
    <<"1", "2", "a">>,
    <<"1", "8", "4", "4", "6", "7", "4", "4", "0", "7", "3", "7", "0", "9", "5", "5", "1",
      "6", "1", "6">> }

\* 2^63, 2^64 - 1 and a numeral with leading zeros among the tracks
AppleTracks ==
  { <<>>,
    <<"1", "2", "3", "4", "6", "0">>,
    <<"1", "2", "3", "4", "5", "0">>,
    <<"1", "2", "3", "4", "5", "6">>,
    <<"3">>,
    <<"9", "2", "2", "3", "3", "7", "2", "0", "3", "6", "8", "5", "4", "7", "7", "5", "8",
      "0", "8">>,
    <<"1", "8", "4", "4", "6", "7", "4", "4", "0", "7", "3", "7", "0", "9", "5", "5", "1",
      "6", "1", "5">>,
    <<"0", "0", "7">> }

SpotifyIds ==
  { <<>>,
    <<"7">>,
    Repeat("z", 22),
    Repeat("z", 23) }

YouTubeIds ==
  { <<>>,
    <<"B">>,
    <<"A">>,
    Repeat("_", 11),
    Repeat("_", 13) }

\* The values of field f when the fields in V vary and the others keep the
\* reference value.
Choice(V, f, alternatives) == IF f \in V THEN alternatives ELSE {Scenario[f]}

\* The reference tuple with the identifiers in S absent.
Blanked(S, explicit) ==
  [f \in Fields |-> IF f = "explicit" THEN explicit
                    ELSE IF f \in S THEN <<>> ELSE Scenario[f]]

\* ------------------------------------------------------------ state
VARIABLES
  pc,      \* the next step of the run on this input
  in,      \* the input tuple handed to compress
  res,     \* compress(in)
  dec,     \* decompress(res.buf), the Go decoder
  web,     \* decompress(res.buf), the browser decoder
  alt,     \* compress of in with the explicit flag toggled
  canon,   \* the field given in canonical form to the last compress
  can,     \* compress of in with that field in canonical form
  data,    \* the buffer handed to the decoders when it is not compress's own
  original \* the bytes of that buffer when it was handed over

\* The browser script's state and the page elements it shows and hides.
VARIABLES
  videoStream,     \* "null" or "stream"
  scanning,
  startBtn,        \* style.display of the start button
  videoContainer,  \* style.display of the video container
  resultDiv,       \* [display, innerHTML] of the result panel
  resetBtn,        \* style.display of the reset button
  allowExplicit,   \* allowExplicitCheckbox.checked
  ticks            \* calls of tick that requestAnimationFrame has scheduled

scannerVars ==
  <<videoStream, scanning, startBtn, videoContainer, resultDiv, resetBtn, allowExplicit, ticks>>

\* The card generator's run over the songs of its input file.
VARIABLES
  genSongs,   \* the songs read from the input file
  songIndex,  \* the position in genSongs of the song the loop is at, from 1
  report,     \* what the run has printed for each song it went through
  running     \* "looping", "returned" (run returned nil) or "panicked"

batchVars == <<genSongs, songIndex, report, running>>

\* One exercise of the BaseN helpers: the alphabet, what was given (a value or
\* a numeral), and what the Go and the browser helpers made of it.
VARIABLES baseN

\* The varint exercise: a 64-bit word, the buffer it was written into, the
\* count PutUvarint / PutVarint returned, and what the browser read back.
VARIABLES varintRun

\* One call of fixLinks: the song's three identifiers as given and as they are
\* now, what the network answers, the statement the call is at, isValid, the
\* platforms a replacement was searched for, and the value returned.
VARIABLES fixRun

\* The variables of the codec and of the decoders' callers.
codecVars == <<pc, in, res, dec, web, alt, canon, can, data, original>>

vars == <<codecVars, scannerVars, batchVars, baseN, varintRun, fixRun>>

\* The variables the generator's run on one song leaves alone.
others == <<data, original, scannerVars, batchVars, baseN, varintRun, fixRun>>

\* What a pair of BaseN helpers returned: the numeral and the value, or a panic
\* (Go) or exception (browser) of decodeBaseN.
BaseNResult(ran, panic, str, val) == [ran |-> ran, panic |-> panic, str |-> str, val |-> val]

BaseNNotRun == BaseNResult(FALSE, FALSE, <<>>, <<>>)

\* One exercise, before the helpers are called.
BaseNGiven(alphabet, given, val, str) ==
  [alphabet |-> alphabet, given |-> given, val |-> val, str |-> str,
   go |-> BaseNNotRun, web |-> BaseNNotRun]

\* The helpers are not being exercised.
BaseNIdle == baseN = BaseNGiven(<<>>, "none", <<>>, <<>>)

\* What the browser read: whether it ran and threw, the value as a sign and a
\* magnitude, and the count of bytes consumed.
VarintRead(ran, thrown, neg, mag, n) ==
  [ran |-> ran, thrown |-> thrown, neg |-> neg, mag |-> mag, n |-> n]

VarintNotRead == VarintRead(FALSE, FALSE, FALSE, <<>>, 0)

\* kind is "uvarint" (the album), "varint" (the delta) or "none"; lead are the
\* bytes already in buf when the varint is appended.
VarintGiven(kind, word, lead) ==
  [kind |-> kind, word |-> word, lead |-> lead, buf |-> lead, written |-> FALSE,
   n |-> 0, read |-> VarintNotRead]

VarintIdle == varintRun = VarintGiven("none", <<>>, <<>>)

\* models.Song, the three fields fixLinks reads and writes
Song(appleMusic, amazonMusic, youtubeMusic) ==
  [AppleMusic |-> appleMusic, AmazonMusic |-> amazonMusic, YoutubeMusic |-> youtubeMusic]

\* pages are the URLs whose page validates for the song; results gives, for
\* each platform, the identifier of the first search candidate that
\* validates, or <<>> when the search fails or no candidate validates.
FixGiven(at, song, pages, results) ==
  [at |-> at, given |-> song, song |-> song, pages |-> pages, results |-> results,
   isValid |-> TRUE, searched |-> {}, returned |-> "none"]

FixIdle == fixRun = FixGiven("idle", Song(<<>>, <<>>, <<>>), {}, <<>>)

\* No batch is under way.
BatchIdle ==
  /\ genSongs = <<>>
  /\ songIndex = 1
  /\ report = <<>>
  /\ running = "returned"

\* The result panel: hidden and empty, or shown with its content.
Panel(display, innerHTML) == [display |-> display, innerHTML |-> innerHTML]

\* The page before the start button is pressed.
ScannerIdle ==
  /\ videoStream = "null"
  /\ scanning = FALSE
  /\ startBtn = "block"
  /\ videoContainer = "none"
  /\ resultDiv = Panel("none", <<>>)
  /\ resetBtn = "none"
  /\ allowExplicit = FALSE
  /\ ticks = 0

NotRun == "not run"

Init ==
  /\ pc = "start"
  /\ \/ \E V \in {S \in SUBSET Fields : Cardinality(S) <= MaxVaried} :
          \E e \in Choice(V, "explicit", {FALSE}),
             aa \in Choice(V, "amazonAlbum", AmazonAlbums),
             at \in Choice(V, "amazonTrack", AmazonTracks),
             pa \in Choice(V, "appleAlbum", AppleAlbums),
             pt \in Choice(V, "appleTrack", AppleTracks),
             sp \in Choice(V, "spotify", SpotifyIds),
             yt \in Choice(V, "youtube", YouTubeIds) :
            in = [explicit |-> e, amazonAlbum |-> aa, amazonTrack |-> at,
                  appleAlbum |-> pa, appleTrack |-> pt, spotify |-> sp, youtube |-> yt]
     \/ \E S \in SUBSET IdFields, e \in BOOLEAN : in = Blanked(S, e)
  /\ res = Packed(NotRun, <<>>)
  /\ alt = Packed(NotRun, <<>>)
  /\ can = Packed(NotRun, <<>>)
  /\ canon = "none"
  /\ dec = DecodeError(NotRun)
  /\ web = DecodeError(NotRun)
  /\ data = <<>>
  /\ original = <<>>
  /\ ScannerIdle
  /\ BatchIdle
  /\ BaseNIdle
  /\ VarintIdle
  /\ FixIdle

compressIn(x) ==
  compress(x.explicit, x.amazonAlbum, x.amazonTrack, x.appleAlbum, x.appleTrack,
           x.spotify, x.youtube)

\* padString applied to one identifier as verifyCompression expects it back
canonicalId(f, s) ==
  IF s = <<>> THEN s
  ELSE IF f \in {"amazonAlbum", "amazonTrack"} THEN padString(s, 10, base36Chars[1])
  ELSE IF f = "spotify" THEN padString(s, 22, base62Chars[1])
  ELSE IF f = "youtube" THEN padString(s, 11, base64Chars[1])
  ELSE s

\* The generator calls compress on the song's identifiers.
Compress ==
  /\ pc = "start"
  /\ res' = compressIn(in)
  /\ pc' = "compressed"
  /\ UNCHANGED <<in, dec, web, alt, canon, can>>
  /\ UNCHANGED others

\* The same call with only the explicit flag toggled.
CompressToggled ==
  /\ pc = "compressed"
  /\ alt' = compressIn([in EXCEPT !.explicit = ~in.explicit])
  /\ pc' = "toggled"
  /\ UNCHANGED <<in, res, dec, web, canon, can>>
  /\ UNCHANGED others

\* The same call with one Amazon, Spotify or YouTube identifier in canonical form.
CompressCanonical ==
  /\ pc = "toggled"
  /\ \E f \in {"amazonAlbum", "amazonTrack", "spotify", "youtube"} :
       /\ canon' = f
       /\ can' = compressIn([in EXCEPT ![f] = canonicalId(f, in[f])])
  /\ pc' = "canonical"
  /\ UNCHANGED <<in, res, dec, web, alt>>
  /\ UNCHANGED others

\* A returned payload is decoded by the Go decoder ...
Decompress ==
  /\ pc = "toggled"
  /\ res.err = ""
  /\ dec' = decompress(res.buf)
  /\ pc' = "decoded"
  /\ UNCHANGED <<in, res, web, alt, canon, can>>
  /\ UNCHANGED others

\* ... and, scanned from the card, by the browser decoder.
WebDecompress ==
  /\ pc = "decoded"
  /\ web' = webDecompress(res.buf)
  /\ pc' = "scanned"
  /\ UNCHANGED <<in, res, dec, alt, canon, can>>
  /\ UNCHANGED others

Next ==
  \/ Compress
  \/ CompressToggled
  \/ CompressCanonical
  \/ Decompress
  \/ WebDecompress

Spec == Init /\ [][Next]_vars

TypeOK ==
  /\ pc \in {"start", "compressed", "toggled", "canonical", "decoded", "scanned",
            "received", "scanner", "batch", "baseN", "varint", "fix"}
  /\ running \in {"looping", "returned", "panicked"}
  /\ ticks \in 0..1
  /\ canon \in {"none", "amazonAlbum", "amazonTrack", "spotify", "youtube"}

\* ------------------------------------------------------------ vocabulary of the claims
\* Every character of s is a symbol of the alphabet.
ValidChars(s, alphabet) == \A i \in 1..Len(s) : IndexRune(alphabet, s[i]) # -1

\* The number of bytes the BaseN value of s needs.
ValueBytes(s, alphabet) == Len(decodeBaseN(s, alphabet).val)

\* s is absent or a decimal numeral of an unsigned 64-bit value.
ValidApple(s) == s = <<>> \/ ParseUint(s).err = ""

\* s is absent, or a non-zero identifier of at most its canonical length (which
\* always fits its slot).
WellFormedId(s, alphabet, length) ==
  \/ s = <<>>
  \/ /\ ValidChars(s, alphabet)
     /\ Len(s) <= length
     /\ decodeBaseN(s, alphabet).val # <<>>

\* s is absent, or the decimal numeral, without leading zeros, of a value in
\* 1 .. 2^64-1.
WellFormedApple(s) == s = <<>> \/ (ParseUint(s).err = "" /\ s[1] # "0")

\* Input tuples the round-trip law covers whatever the reading of "valid" and
\* "within slot capacity": every identifier absent or well formed.
ValidInput(x) ==
  /\ WellFormedId(x.amazonAlbum, base36Chars, 10)
  /\ WellFormedId(x.amazonTrack, base36Chars, 10)
  /\ WellFormedApple(x.appleAlbum)
  /\ WellFormedApple(x.appleTrack)
  /\ WellFormedId(x.spotify, base62Chars, 22)
  /\ WellFormedId(x.youtube, base64Chars, 11)

\* canonicalize(x): the zero-padding rule applied to Amazon, Spotify and
\* YouTube identifiers, the Apple IDs verbatim, as a decoder result.
Canonical(x) ==
  Decoded("", x.explicit,
          canonicalId("amazonAlbum", x.amazonAlbum), canonicalId("amazonTrack", x.amazonTrack),
          x.appleAlbum, x.appleTrack,
          canonicalId("spotify", x.spotify), canonicalId("youtube", x.youtube))

Compressed == pc # "start"

\* The state right after the call of compress; `in` and `res` never change later.
JustCompressed == pc = "compressed"
DecodedByGo == pc \in {"decoded", "scanned"}
Returned == Compressed /\ res.err = ""

\* ------------------------------------------------------------ C1
\* C1 (as claimed): for every input tuple whose identifiers are valid in their
\* alphabets and within slot capacity, compress succeeds and the decoder
\* returns the canonical form of the input.  Stated here for the well-formed
\* tuples only, and still refuted: the code rejects every Apple track of 2^63
\* or more.
C1_RoundTripLaw ==
  (Compressed /\ ValidInput(in)) =>
    /\ res.err = ""
    /\ DecodedByGo => dec = Canonical(in)

\* ------------------------------------------------------------ C2
\* C2: compress never hands out an unverified payload.  A failed compress
\* returns no buffer, and every buffer it returns decodes, with no error, to the
\* input's explicit flag and the canonical form of every input identifier.
C2_VerifiedPayload ==
  /\ (Compressed /\ res.err # "") => res.buf = <<>>
  /\ DecodedByGo => (res.err = "" /\ dec = Canonical(in))

\* C2 witness: a returned payload was decoded and an identifier came back padded.
C2_Witness ==
  /\ DecodedByGo
  /\ in.amazonTrack # <<>>
  /\ dec.amazonTrack # in.amazonTrack
  /\ dec.amazonTrack = padString(in.amazonTrack, 10, "0")

\* ------------------------------------------------------------ C3
\* C3 (as claimed): the browser decoder returns, for every payload compress
\* returns, the explicit flag and the six identifiers the Go decoder returns.
\* The browser adds the delta in unbounded bigint arithmetic where Go wraps at
\* 64 bits, so the two differ for an Apple album of 2^63 or more.
C3_DecodersAgree == (pc = "scanned") => web = dec

\* ------------------------------------------------------------ C4
\* The value of an Apple field as compress parses it (0 when absent).
AppleVal(s) == IF s = <<>> THEN Zero64 ELSE ParseUint(s).val

\* The layout of buf for the input x: 7 bytes Amazon album (bit 7 of byte 0 the
\* explicit flag), 7 bytes Amazon track, the Apple album uvarint, the Apple
\* delta varint, 17 bytes Spotify, 9 bytes YouTube, and nothing else.
LayoutOf(buf, x) ==
  LET u == Uvarint(Slice(buf, 14, Len(buf)))
      v == Varint(Slice(buf, 14 + u.n, Len(buf)))
      o == 14 + u.n + v.n
  IN  /\ Len(buf) >= 14
      /\ (buf[1] >= 128) = x.explicit
      /\ StripZeros(<<buf[1] % 128>> \o Slice(buf, 1, 7)) = decodeBaseN(x.amazonAlbum, base36Chars).val
      /\ StripZeros(Slice(buf, 7, 14)) = decodeBaseN(x.amazonTrack, base36Chars).val
      /\ u.n \in 1..10
      /\ u.val = AppleVal(x.appleAlbum)
      /\ v.n \in 1..10
      /\ v.val = Sub64(AppleVal(x.appleTrack), AppleVal(x.appleAlbum))
      /\ Len(buf) = o + 17 + 9
      /\ StripZeros(Slice(buf, o, o + 17)) = decodeBaseN(x.spotify, base62Chars).val
      /\ StripZeros(Slice(buf, o + 17, o + 26)) = decodeBaseN(x.youtube, base64Chars).val

\* C4: every payload compress returns has the fixed positional layout: the six
\* groups in order, big-endian and left-zero-padded in the fixed slots, with no
\* tag, length prefix or other byte between or after them.
C4_WireLayout == Returned => LayoutOf(res.buf, in)

\* C4 witness: a payload with all six identifiers present was returned.
C4_Witness ==
  /\ Returned
  /\ \A f \in IdFields : in[f] # <<>>
  /\ Len(res.buf) > 41

\* ------------------------------------------------------------ C5
\* s is valid in its alphabet and its value needs more than `width` bytes.
TooLong(s, alphabet, width) == ValidChars(s, alphabet) /\ ValueBytes(s, alphabet) > width

\* s passes the group of its fixed slot.
Accepted(s, alphabet, width) == ValidChars(s, alphabet) /\ ValueBytes(s, alphabet) <= width

\* Every identifier is made of symbols of its alphabet, the Apple IDs are
\* numerals of 64-bit values: no error but too-long can arise.
AllInAlphabet(x) ==
  /\ ValidChars(x.amazonAlbum, base36Chars)
  /\ ValidChars(x.amazonTrack, base36Chars)
  /\ ValidApple(x.appleAlbum)
  /\ ValidApple(x.appleTrack)
  /\ ValidChars(x.spotify, base62Chars)
  /\ ValidChars(x.youtube, base64Chars)

\* C5 (as claimed): an identifier too long for its slot makes compress fail
\* with the identifier-too-long error of that very field.  Stated here for
\* inputs that have no other defect; it fails when two identifiers are too long.
C5_TooLongNamesItsField ==
  (JustCompressed /\ AllInAlphabet(in)) =>
    /\ TooLong(in.amazonAlbum, base36Chars, 7) => res = Packed("amazon album too long", <<>>)
    /\ TooLong(in.amazonTrack, base36Chars, 7) => res = Packed("amazon track too long", <<>>)
    /\ TooLong(in.spotify, base62Chars, 17) => res = Packed("spotify id too long", <<>>)
    /\ TooLong(in.youtube, base64Chars, 9) => res = Packed("youtube id too long", <<>>)

AmazonAccepted(x) ==
  Accepted(x.amazonAlbum, base36Chars, 7) /\ Accepted(x.amazonTrack, base36Chars, 7)

AppleAccepted(x) == ValidApple(x.appleAlbum) /\ ValidApple(x.appleTrack)

\* C5 (amended): an identifier too long for its slot makes compress fail and
\* return no buffer; the error is that field's identifier-too-long error when
\* every field before it in wire order is accepted, and otherwise the error of
\* an earlier field.
C5_TooLongRejected ==
  JustCompressed =>
    /\ ( \/ TooLong(in.amazonAlbum, base36Chars, 7)
         \/ TooLong(in.amazonTrack, base36Chars, 7)
         \/ TooLong(in.spotify, base62Chars, 17)
         \/ TooLong(in.youtube, base64Chars, 9) ) => (res.err # "" /\ res.buf = <<>>)
    /\ TooLong(in.amazonAlbum, base36Chars, 7) => res.err = "amazon album too long"
    /\ (TooLong(in.amazonTrack, base36Chars, 7) /\ Accepted(in.amazonAlbum, base36Chars, 7))
         => res.err = "amazon track too long"
    /\ (TooLong(in.spotify, base62Chars, 17) /\ AmazonAccepted(in) /\ AppleAccepted(in))
         => res.err = "spotify id too long"
    /\ (TooLong(in.youtube, base64Chars, 9) /\ AmazonAccepted(in) /\ AppleAccepted(in)
          /\ Accepted(in.spotify, base62Chars, 17))
         => res.err = "youtube id too long"

\* C5 witness: a Spotify identifier of 23 characters was rejected as too long.
C5_Witness ==
  /\ Compressed
  /\ TooLong(in.spotify, base62Chars, 17)
  /\ res = Packed("spotify id too long", <<>>)

\* ------------------------------------------------------------ C6
Toggled == pc \in {"toggled", "canonical", "decoded", "scanned"}

\* C6: compress(true, ids) and compress(false, ids) both fail or both succeed,
\* and when they succeed the buffers have the same length and differ in bit 7
\* of byte 0 and in no other bit.
C6_ExplicitBitIsolated ==
  Toggled =>
    /\ (res.err = "") = (alt.err = "")
    /\ (res.err = "") =>
         /\ Len(res.buf) = Len(alt.buf)
         /\ Tail(res.buf) = Tail(alt.buf)
         /\ res.buf[1] % 128 = alt.buf[1] % 128
         /\ (res.buf[1] >= 128) = in.explicit
         /\ (alt.buf[1] >= 128) = ~in.explicit

\* C6 witness: both calls succeeded on an input with an Amazon album in byte 0.
C6_Witness ==
  /\ Toggled
  /\ res.err = ""
  /\ alt.err = ""
  /\ in.amazonAlbum # <<>>
  /\ res.buf # alt.buf

\* ------------------------------------------------------------ C7
\* The bytes of the two Apple varints in a returned buffer.
AppleAlbumBytes(buf) == Slice(buf, 14, 14 + Uvarint(Slice(buf, 14, Len(buf))).n)

AppleTrackBytes(buf) ==
  LET o == 14 + Uvarint(Slice(buf, 14, Len(buf))).n
  IN  Slice(buf, o, o + Varint(Slice(buf, o, Len(buf))).n)

\* The fixed slots of absent identifiers are all-zero bytes and the Apple album
\* of an absent album is the zero varint.
EmptyFixedSlotsZero(buf, x) ==
  LET o == 14 + Len(AppleAlbumBytes(buf)) + Len(AppleTrackBytes(buf))
  IN  /\ x.amazonAlbum = <<>> => <<buf[1] % 128>> \o Slice(buf, 1, 7) = Repeat(0, 7)
      /\ x.amazonTrack = <<>> => Slice(buf, 7, 14) = Repeat(0, 7)
      /\ x.appleAlbum = <<>> => AppleAlbumBytes(buf) = <<0>>
      /\ x.spotify = <<>> => Slice(buf, o, o + 17) = Repeat(0, 17)
      /\ x.youtube = <<>> => Slice(buf, o + 17, o + 26) = Repeat(0, 9)

\* The inputs of the claim: the reference identifiers, any subset of them absent.
BlankedInputs == {Blanked(S, e) : S \in SUBSET IdFields, e \in BOOLEAN}

\* C7 (as claimed): every absent identifier is written as the all-zero value of
\* its slot, a zero varint for the Apple fields.  The Apple track slot holds the
\* delta 0 - album, which is not the zero varint when the album is present.
C7_AbsentIsAllZero ==
  Returned =>
    /\ EmptyFixedSlotsZero(res.buf, in)
    /\ in.appleTrack = <<>> => AppleTrackBytes(res.buf) = <<0>>

\* C7 (amended): for every subset of the six identifiers absent, compress
\* succeeds and writes all-zero bytes in the fixed slots of the absent ones and
\* the zero varint for an absent Apple album; for an absent Apple track it
\* writes the varint of the delta 0 - album, the zero varint only when the album
\* is absent too; and decompress returns the empty string for each absent one.
C7_EmptySlots ==
  /\ (Compressed /\ in \in BlankedInputs) => res.err = ""
  /\ Returned =>
       /\ EmptyFixedSlotsZero(res.buf, in)
       /\ in.appleTrack = <<>> =>
            /\ AppleTrackBytes(res.buf) = PutVarint(Sub64(Zero64, AppleVal(in.appleAlbum)))
            /\ in.appleAlbum = <<>> => AppleTrackBytes(res.buf) = <<0>>
  /\ DecodedByGo => \A f \in IdFields : in[f] = <<>> => dec[f] = <<>>

\* C7 witness: a payload with an absent Apple track beside a present album, and
\* an absent Spotify identifier, was returned and decoded.
C7_Witness ==
  /\ DecodedByGo
  /\ in.appleTrack = <<>>
  /\ in.appleAlbum # <<>>
  /\ in.spotify = <<>>
  /\ AppleTrackBytes(res.buf) # <<0>>
  /\ dec.appleTrack = <<>>
  /\ dec.spotify = <<>>

\* ------------------------------------------------------------ C8
\* C8 (as claimed): for every album/track pair the decoder returns exactly the
\* original track string.  Stated for well-formed inputs; the code rejects
\* every track of 2^63 or more, whose int64 reading is negative.
C8_AppleTrackRestored ==
  (Compressed /\ ValidInput(in) /\ in.appleTrack # <<>>) =>
    /\ res.err = ""
    /\ DecodedByGo => dec.appleTrack = in.appleTrack

\* ------------------------------------------------------------ C9
\* C9: compress of an Amazon, Spotify or YouTube identifier in canonical form
\* returns the same buffer as compress of the identifier as given, all other
\* inputs being equal (and fails exactly when that one fails).
C9_IdempotentPadding ==
  (pc = "canonical") =>
    /\ can.buf = res.buf
    /\ (can.err = "") = (res.err = "")

\* C9 witness: an identifier shorter than its canonical length was compressed
\* as given and in canonical form, both with success.
C9_Witness ==
  /\ pc = "canonical"
  /\ canonicalId(canon, in[canon]) # in[canon]
  /\ res.err = ""
  /\ can.err = ""

\* ------------------------------------------------------------ C10
\* C10: every identifier of canonical length fits its slot: 10 Base36
\* characters fit 7 bytes (55 bits in the album slot, bit 7 of byte 0 staying
\* free), 22 Base62 characters fit 17 bytes, 11 Base64url characters fit 9
\* bytes; compress never reports such an identifier too long.
C10_SlotCapacity ==
  JustCompressed =>
    /\ (ValidChars(in.amazonAlbum, base36Chars) /\ Len(in.amazonAlbum) = 10) =>
         /\ res.err # "amazon album too long"
         /\ amazonAlbumGroup(FALSE, in.amazonAlbum).err = ""
         /\ amazonAlbumGroup(FALSE, in.amazonAlbum).bytes[1] < 128
    /\ (ValidChars(in.amazonTrack, base36Chars) /\ Len(in.amazonTrack) = 10) =>
         /\ res.err # "amazon track too long"
         /\ amazonTrackGroup(in.amazonTrack).err = ""
    /\ (ValidChars(in.spotify, base62Chars) /\ Len(in.spotify) = 22) =>
         /\ res.err # "spotify id too long"
         /\ spotifyGroup(in.spotify).err = ""
    /\ (ValidChars(in.youtube, base64Chars) /\ Len(in.youtube) = 11) =>
         /\ res.err # "youtube id too long"
         /\ youtubeGroup(in.youtube).err = ""

\* C10 witness: the largest identifiers of canonical length were compressed.
C10_Witness ==
  /\ Compressed
  /\ in.amazonAlbum = Repeat("Z", 10)
  /\ in.spotify = Repeat("z", 22)
  /\ res.err = ""

\* ------------------------------------------------------------ C11
\* The byte lengths of the two Apple varints compress writes for the input x.
AppleAlbumLen(x) == Len(PutUvarint(AppleVal(x.appleAlbum)))
AppleTrackLen(x) == Len(PutVarint(Sub64(AppleVal(x.appleTrack), AppleVal(x.appleAlbum))))

\* The length rule of the payload compress returns for the input x.
LengthRule(buf, x) ==
  /\ Len(buf) = 7 + 7 + AppleAlbumLen(x) + AppleTrackLen(x) + 17 + 9
  /\ AppleAlbumLen(x) \in 1..10
  /\ AppleTrackLen(x) \in 1..10

\* C11 (as claimed): every payload compress returns has length
\* 7 + 7 + u + v + 17 + 9, where u and v, each from 1 to 10, are the lengths of
\* the Apple album uvarint and of the Apple track-delta varint; the length is at
\* least 41, and is 41 when both Apple IDs are absent.
C11_MinimumIs41 ==
  (JustCompressed /\ res.err = "") =>
    /\ LengthRule(res.buf, in)
    /\ Len(res.buf) >= 41
    /\ (in.appleAlbum = <<>> /\ in.appleTrack = <<>>) => Len(res.buf) = 41

\* C11 (amended): the same length rule, with the minimum it implies: the length
\* is at least 42, and is 42 when both Apple IDs are absent (one byte each).
C11_PayloadLength ==
  (JustCompressed /\ res.err = "") =>
    /\ LengthRule(res.buf, in)
    /\ Len(res.buf) >= 42
    /\ (in.appleAlbum = <<>> /\ in.appleTrack = <<>>) => Len(res.buf) = 42

\* C11 witness: a payload without Apple IDs and of 42 bytes was returned, the
\* other identifiers being present.
C11_Witness ==
  /\ JustCompressed
  /\ res.err = ""
  /\ in.appleAlbum = <<>>
  /\ in.appleTrack = <<>>
  /\ in.spotify # <<>>
  /\ Len(res.buf) = 42

\* C11 witness of the upper end: a payload with a 10-byte Apple album uvarint.
C11_LongVarint ==
  /\ JustCompressed
  /\ res.err = ""
  /\ AppleAlbumLen(in) = 10

\* ------------------------------------------------------------ C12
\* What decompress returns for the reference scenario.
ScenarioDecoded ==
  Decoded("", TRUE, Scenario.amazonAlbum, Scenario.amazonTrack, Scenario.appleAlbum,
          Scenario.appleTrack, Scenario.spotify, Scenario.youtube)

\* The scenario's payload but for its length: compress succeeds, bit 7 of byte 0
\* is set, decompress reproduces every field, and the call with explicit=false
\* returns the same bytes with that one bit clear.
ScenarioHolds ==
  /\ res.err = ""
  /\ res.buf[1] >= 128
  /\ DecodedByGo => dec = ScenarioDecoded
  /\ Toggled => alt = Packed("", <<res.buf[1] - 128>> \o Tail(res.buf))

\* C12 (as claimed): the scenario's payload is 41 bytes long.
C12_ScenarioIs41Bytes ==
  (Compressed /\ in = Scenario) => (ScenarioHolds /\ Len(res.buf) = 41)

\* C12 (amended): the scenario's payload is 46 bytes long: the Apple album
\* 1440857781 takes a 5-byte uvarint and the delta 36 a 1-byte varint.
C12_Scenario ==
  (Compressed /\ in = Scenario) =>
    /\ ScenarioHolds
    /\ Len(res.buf) = 46
    /\ AppleAlbumLen(in) = 5
    /\ AppleTrackLen(in) = 1

\* C12 witness: the scenario was compressed with both flags and decoded.
C12_Witness ==
  /\ DecodedByGo
  /\ in = Scenario
  /\ dec = ScenarioDecoded
  /\ alt.err = ""

\* ------------------------------------------------------------ decoding received bytes
\* The codec variables of a run that never calls compress.
CompressIdle ==
  /\ in = Blanked(IdFields, FALSE)
  /\ res = Packed(NotRun, <<>>)
  /\ alt = Packed(NotRun, <<>>)
  /\ can = Packed(NotRun, <<>>)
  /\ canon = "none"

\* 2^63 + 5, whose uvarint takes ten bytes
LargeAppleAlbum ==
  <<"9", "2", "2", "3", "3", "7", "2", "0", "3", "6", "8", "5", "4", "7", "7", "5", "8",
    "1", "3">>

\* Payloads of three cards: the reference tuple, the same without Apple IDs,
\* and the same with the large Apple album and no Apple track.
CardPayloads ==
  { compressIn(x).buf :
      x \in { Scenario,
              Blanked({"appleAlbum", "appleTrack"}, FALSE),
              [Scenario EXCEPT !.appleAlbum = LargeAppleAlbum, !.appleTrack = <<>>] } }

\* buf cut after each number of bytes, from none to all of them
Prefixes(buf) == { Slice(buf, 0, k) : k \in 0..Len(buf) }

\* buf with its two Apple varints replaced by the bytes u and v
WithVarints(buf, u, v) ==
  Slice(buf, 0, 14) \o u \o v \o Slice(buf, Len(buf) - 26, Len(buf))

\* Varints that overflow 64 bits: a tenth byte above 1, and an eleventh byte.
OverlongVarints == { Repeat(255, 9) \o <<2>>, Repeat(128, 10) \o <<1>> }

\* Deltas next to the album 5: -10, -3, -5 and 7 as zig-zag varints.
DeltaVarints == { <<19>>, <<5>>, <<9>>, <<14>> }

\* Buffers the encoder never writes: every fixed group full of ones, varints
\* with a needless continuation byte, and the album 2^63 + 5 with the largest
\* delta.
UnencodedBuffers ==
  { Repeat(255, 14) \o <<133, 0>> \o <<147, 0>> \o Repeat(255, 26),
    Repeat(127, 14) \o <<133, 128, 0>> \o <<14>> \o Repeat(255, 26),
    WithVarints(compressIn(Scenario).buf, <<129, 128, 0>>, <<128, 0>>),
    WithVarints(compressIn(Scenario).buf,
                PutUvarint(Word64(decodeBaseN(LargeAppleAlbum, decimalChars).val)),
                PutVarint(<<127>> \o Repeat(255, 7))) }

\* The bytes a decoder may be handed: every prefix of a card's payload, a
\* payload with the explicit bit set, a payload followed by more bytes,
\* payloads with an overlong Apple varint, and payloads with the album 5 and a
\* delta that leaves a negative, a positive or no track.
ReceivedBuffers ==
  UNION { Prefixes(buf) : buf \in CardPayloads }
    \cup { setExplicit(TRUE, buf) : buf \in CardPayloads }
    \cup { buf \o <<0, 255>> : buf \in CardPayloads }
    \cup { WithVarints(buf, u, <<0>>) : buf \in CardPayloads, u \in OverlongVarints }
    \cup { WithVarints(buf, <<1>>, v) : buf \in CardPayloads, v \in OverlongVarints }
    \cup { WithVarints(buf, <<5>>, v) : buf \in CardPayloads, v \in DeltaVarints }
    \cup UnencodedBuffers

DecodeInit ==
  /\ pc = "received"
  /\ data \in ReceivedBuffers
  /\ original = data
  /\ dec = DecodeError(NotRun)
  /\ web = DecodeError(NotRun)
  /\ CompressIdle
  /\ VarintIdle
  /\ FixIdle
  /\ ScannerIdle
  /\ BatchIdle
  /\ BaseNIdle

\* The Go decoder is called on the buffer, before or after the browser decoder.
DecompressData ==
  /\ pc = "received"
  /\ dec.err = NotRun
  /\ dec' = decompress(data)
  /\ data' = dataAfterDecompress(data)
  /\ UNCHANGED <<pc, in, res, web, alt, canon, can, original, scannerVars, batchVars, baseN, varintRun, fixRun>>

\* The browser decoder is called on the buffer, before or after the Go decoder.
WebDecompressData ==
  /\ pc = "received"
  /\ web.err = NotRun
  /\ web' = webDecompress(data)
  /\ data' = dataAfterWebDecompress(data)
  /\ UNCHANGED <<pc, in, res, dec, alt, canon, can, original, scannerVars, batchVars, baseN, varintRun, fixRun>>

\* compress is called on what the Go decoder returned.
Recompress ==
  /\ pc = "received"
  /\ dec.err = ""
  /\ res.err = NotRun
  /\ LET called(x) == in' = x /\ res' = compressIn(x)
     IN  called([f \in Fields |-> dec[f]])
  /\ UNCHANGED <<pc, dec, web, alt, canon, can, data, original, scannerVars, batchVars, baseN,
                 varintRun, fixRun>>

DecodeNext ==
  \/ DecompressData
  \/ WebDecompressData
  \/ Recompress

DecodeSpec == DecodeInit /\ [][DecodeNext]_vars

\* ------------------------------------------------------------ C13
\* The field at which decoding of data must fail: the first fixed group that
\* has fewer bytes left than it needs, or the first Apple varint whose consumed
\* byte count (binary.Uvarint's n) is zero or negative; "none" when every
\* group is there.
Offending(bytes) ==
  LET youtubeAt(i) == IF i + 9 > Len(bytes) THEN "youtube" ELSE "none"
      spotifyAt(i) == IF i + 17 > Len(bytes) THEN "spotify" ELSE youtubeAt(i + 17)
      trackAt(i, v) == IF v.n <= 0 THEN "appleTrack" ELSE spotifyAt(i + v.n)
      albumAt(i, u) ==
        IF u.n <= 0 THEN "appleAlbum"
        ELSE trackAt(i + u.n, Varint(Slice(bytes, i + u.n, Len(bytes))))
  IN  IF Len(bytes) < 7 THEN "amazonAlbum"
      ELSE IF Len(bytes) < 14 THEN "amazonTrack"
      ELSE albumAt(14, Uvarint(Slice(bytes, 14, Len(bytes))))

\* The field a decode error names.  The unqualified "short data" is raised for
\* the first group only and is read as naming it.
FieldNamed(err) ==
  IF err = "short data" THEN "amazonAlbum"
  ELSE IF err = "short data amz trk" THEN "amazonTrack"
  ELSE IF err = "bad varint app alb" THEN "appleAlbum"
  ELSE IF err = "bad varint app trk" THEN "appleTrack"
  ELSE IF err = "short data spot" THEN "spotify"
  ELSE IF err = "short data yt" THEN "youtube"
  ELSE "none"

\* The decoder result d is an error naming field f, with no field values.
FailsAt(d, f) == d.err # "" /\ FieldNamed(d.err) = f /\ d = DecodeError(d.err)

GoDecoded == pc = "received" /\ dec.err # NotRun
WebDecoded == pc = "received" /\ web.err # NotRun

\* C13 (as claimed): whenever fewer bytes remain than the next fixed group
\* needs, or an Apple varint is malformed, each decoder returns an error that
\* names the offending field and no field values, for buffers of every length
\* including 0.  Refuted by the browser decoder.
C13_DecodeErrors ==
  Offending(data) # "none" =>
    /\ GoDecoded => FailsAt(dec, Offending(data))
    /\ WebDecoded => FailsAt(web, Offending(data))

\* The part of C13 the Go decoder meets on its own.
GoDecodeErrors ==
  (GoDecoded /\ Offending(data) # "none") =>
    FailsAt(dec, Offending(data))

\* The browser decoder fails on every buffer that is cut short ...
WebFailsWhenShort ==
  (WebDecoded /\ data \in UNION { Prefixes(buf) : buf \in CardPayloads }
     /\ Offending(data) # "none") => web.err # ""

\* ... and returns field values for a buffer with an overlong varint.
WebAcceptsOverlong ==
  WebDecoded /\ Offending(data) = "appleAlbum" /\ web.err = ""


\* ------------------------------------------------------------ the browser's scan loop
\* function getAllLinks: the platforms a decoded card has a link for, in order.
getAllLinks(decoded) ==
  (IF decoded.spotify # <<>> THEN <<"spotify">> ELSE <<>>)
    \o (IF decoded.appleAlbum # <<>> /\ decoded.appleTrack # <<>> THEN <<"apple">> ELSE <<>>)
    \o (IF decoded.amazonAlbum # <<>> /\ decoded.amazonTrack # <<>> THEN <<"amazon">> ELSE <<>>)
    \o (IF decoded.youtube # <<>> THEN <<"youtube">> ELSE <<>>)

\* What jsQR may find in a video frame: the payload of a card (explicit or not,
\* with or without identifiers), or the bytes of some other QR code.
ScannedCodes ==
  { compressIn(Blanked(S, e)).buf :
      S \in SUBSET {"amazonAlbum", "appleTrack", "spotify", "youtube"}, e \in BOOLEAN }
    \cup { compressIn(Blanked(IdFields, FALSE)).buf }
    \cup { Slice(compressIn(Scenario).buf, 0, k) : k \in {0, 14, 30} }
    \cup { WithVarints(compressIn(Scenario).buf, u, <<0>>) : u \in OverlongVarints }

\* One animation frame: the video has no data yet, shows no QR code, or shows
\* the QR code with these bytes.
Frames ==
  { [ready |-> FALSE, code |-> FALSE, bytes |-> <<>>],
    [ready |-> TRUE, code |-> FALSE, bytes |-> <<>>] }
    \cup { [ready |-> TRUE, code |-> TRUE, bytes |-> b] : b \in ScannedCodes }

ScanInit ==
  /\ pc = "scanner"
  /\ ScannerIdle
  /\ data = <<>>
  /\ original = <<>>
  /\ dec = DecodeError(NotRun)
  /\ web = DecodeError(NotRun)
  /\ CompressIdle
  /\ VarintIdle
  /\ FixIdle
  /\ BatchIdle
  /\ BaseNIdle

\* function startScanner, from its first line to the end of its try or catch:
\* getUserMedia gives a stream or is refused.
startScanner(granted) ==
  IF granted
  THEN /\ startBtn' = "none"
       /\ videoContainer' = "block"
       /\ videoStream' = "stream"
       /\ scanning' = TRUE
       /\ ticks' = ticks + 1
  ELSE /\ startBtn' = "block"
       /\ videoContainer' = "none"
       /\ UNCHANGED <<videoStream, scanning, ticks>>

\* The start button is pressed.
StartScanner ==
  /\ startBtn = "block"
  /\ \E granted \in BOOLEAN : startScanner(granted)
  /\ UNCHANGED <<resultDiv, resetBtn, allowExplicit>>
  /\ UNCHANGED <<codecVars, batchVars, baseN, varintRun, fixRun>>

\* function reset, on the reset button: stopScanner, hide and empty the
\* panel, hide the button, startScanner.
Reset ==
  /\ resetBtn = "block"
  /\ resultDiv' = Panel("none", <<>>)
  /\ resetBtn' = "none"
  /\ \E granted \in BOOLEAN :
       IF granted
       THEN startScanner(TRUE)
       ELSE /\ startBtn' = "block"
            /\ videoContainer' = "none"
            /\ scanning' = FALSE
            /\ videoStream' = "null"
            /\ UNCHANGED ticks
  /\ UNCHANGED allowExplicit
  /\ UNCHANGED <<codecVars, batchVars, baseN, varintRun, fixRun>>

\* The user ticks or clears the "allow explicit" checkbox.
ToggleAllowExplicit ==
  /\ allowExplicit' = ~allowExplicit
  /\ UNCHANGED <<videoStream, scanning, startBtn, videoContainer, resultDiv, resetBtn, ticks>>
  /\ UNCHANGED <<codecVars, batchVars, baseN, varintRun, fixRun>>

\* The three branches of tick that show a result: stopScanner, hide the video,
\* fill and show the panel, show the reset button.
showResult(innerHTML) ==
  /\ scanning' = FALSE
  /\ videoStream' = "null"
  /\ videoContainer' = "none"
  /\ resultDiv' = Panel("block", innerHTML)
  /\ resetBtn' = "block"
  /\ UNCHANGED <<startBtn, allowExplicit>>

\* Mutant of tickCode: the explicit flag is not looked at.
tickCodeUngated(bytes, decoded) ==
  /\ data' = dataAfterWebDecompress(bytes)
  /\ original' = bytes
  /\ web' = decoded
  /\ ticks' = ticks - 1
  /\ IF decoded.err # ""
     THEN UNCHANGED <<videoStream, scanning, startBtn, videoContainer, resultDiv, resetBtn,
                      allowExplicit>>
     ELSE IF getAllLinks(decoded) # <<>>
     THEN showResult(getAllLinks(decoded))
     ELSE showResult(<<"NO LINKS FOUND">>)

\* tick, "if (code)": decompress(bytes) in the try block, the catch block, and
\* the return that follows both.  The call is not scheduled again.
tickCode(bytes, decoded) ==
  /\ data' = dataAfterWebDecompress(bytes)
  /\ original' = bytes
  /\ web' = decoded
  /\ ticks' = ticks - 1
  /\ IF decoded.err # ""
     THEN UNCHANGED <<videoStream, scanning, startBtn, videoContainer, resultDiv, resetBtn,
                      allowExplicit>>
     ELSE IF decoded.explicit /\ ~allowExplicit
     THEN showResult(<<"EXPLICIT CONTENT">>)
     ELSE IF getAllLinks(decoded) # <<>>
     THEN showResult(getAllLinks(decoded))
     ELSE showResult(<<"NO LINKS FOUND">>)

\* function tick on one frame.
tick(frame) ==
  IF ~scanning
  THEN ticks' = ticks - 1 /\ UNCHANGED <<data, original, web>>
       /\ UNCHANGED <<videoStream, scanning, startBtn, videoContainer, resultDiv, resetBtn,
                      allowExplicit>>
  ELSE IF frame.ready /\ frame.code
  THEN tickCode(frame.bytes, webDecompress(frame.bytes))
  ELSE UNCHANGED <<data, original, web>> /\ UNCHANGED scannerVars

\* The browser runs a scheduled call of tick.
Tick ==
  /\ ticks > 0
  /\ \E frame \in Frames : tick(frame)
  /\ UNCHANGED <<pc, in, res, dec, alt, canon, can, batchVars, baseN, varintRun, fixRun>>

ScanNext ==
  \/ StartScanner
  \/ Tick
  \/ Reset
  \/ ToggleAllowExplicit

ScanSpec == ScanInit /\ [][ScanNext]_vars

\* ------------------------------------------------------------ C14
\* The scanner state the claim lists, with the start button and the video
\* container.
ScannerState ==
  <<scanning, videoStream, resultDiv, resetBtn, startBtn, videoContainer>>

\* C14 (as claimed): when decompress throws on a captured QR payload, the
\* scanner state (scanning flag, video stream, result panel, reset button) is
\* left unchanged and a further call of tick is scheduled.  Refuted: the state
\* is unchanged but no call of tick is scheduled.
C14_ScannerSurvives ==
  [][ (Tick /\ scanning /\ web'.err # "" /\ (data' # data \/ web' # web \/ ticks' # ticks))
        => (UNCHANGED ScannerState /\ ticks' >= 1) ]_vars

\* The state the scan loop is left in: scanning, the camera on, nothing shown,
\* and no call of tick scheduled.
ScannerStalled ==
  /\ scanning
  /\ videoStream = "stream"
  /\ ticks = 0
  /\ resetBtn = "none"
  /\ startBtn = "none"

\* While the scanner is scanning a call of tick is scheduled.
ScanLoopAlive == scanning => ticks >= 1

\* The part of C14 that holds: a throwing decompress changes no scanner state.
ThrowChangesNothing ==
  [][ (ticks' = ticks - 1 /\ scanning /\ web'.err # "") => UNCHANGED ScannerState ]_vars


\* ------------------------------------------------------------ the card generator's batch run
\* Largest number of songs in the input file.
MaxSongs == 3

\* A song of the input file: its Invalid flag and the identifiers
\* createQRCodeImage hands to compress.
GenSong(invalid, ids) == [invalid |-> invalid, ids |-> ids]

\* Songs of an input file: one that encodes, one flagged invalid, one with a
\* Spotify ID too long for its slot, one with a character outside the Amazon
\* alphabet, one with a non-decimal Apple album, and one with the Apple track
\* 2^63, whose payload fails verification.
BatchSongs ==
  { GenSong(FALSE, Scenario),
    GenSong(TRUE, Scenario),
    GenSong(FALSE, [Scenario EXCEPT !.spotify = Repeat("z", 23)]),
    GenSong(FALSE, [Scenario EXCEPT !.amazonAlbum = <<"b">>]),
    GenSong(FALSE, [Scenario EXCEPT !.appleAlbum = <<"1", "2", "a">>]),
    GenSong(FALSE, [Scenario EXCEPT !.appleTrack =
       <<"9", "2", "2", "3", "3", "7", "2", "0", "3", "6", "8", "5", "4", "7", "7", "5", "8",
         "0", "8">>]) }

\* One line of what the run prints about a song.
Line(song, text, err) == [song |-> song, text |-> text, err |-> err]

BatchInit ==
  /\ pc = "batch"
  /\ \E n \in 0..MaxSongs : genSongs \in [1..n -> BatchSongs]
  /\ songIndex = 1
  /\ report = <<>>
  /\ running = "looping"
  /\ data = <<>>
  /\ original = <<>>
  /\ dec = DecodeError(NotRun)
  /\ web = DecodeError(NotRun)
  /\ CompressIdle
  /\ VarintIdle
  /\ FixIdle
  /\ ScannerIdle
  /\ BaseNIdle

\* createQRCodeImage and the rest of the loop body for a song that is not
\* flagged: a panic of decodeBaseN inside compress ends the process, an error
\* of compress is printed and the loop continues, and otherwise the two card
\* images are drawn, each of which may fail and is then printed.
generateAssets(qr) ==
  IF qr.err = "panic: invalid char"
  THEN /\ running' = "panicked"
       /\ report' = Append(report, Line(songIndex, "panic", qr.err))
       /\ UNCHANGED songIndex
  ELSE /\ songIndex' = songIndex + 1
       /\ UNCHANGED running
       /\ IF qr.err # ""
          THEN report' = Append(report, Line(songIndex, "Failed to generate QR code", qr.err))
          ELSE \E text \in {"Failed to generate Card Front", "Failed to generate Card Back",
                            "generated"} :
                 report' = Append(report, Line(songIndex, text, ""))

\* One iteration of the loop of run.
ProcessSong ==
  /\ running = "looping"
  /\ songIndex <= Len(genSongs)
  /\ IF genSongs[songIndex].invalid
     THEN songIndex' = songIndex + 1 /\ UNCHANGED <<report, running>>
     ELSE generateAssets(compressIn(genSongs[songIndex].ids))
  /\ UNCHANGED genSongs
  /\ UNCHANGED <<codecVars, scannerVars, baseN, varintRun, fixRun>>

\* The loop is over and run returns nil.
Return ==
  /\ running = "looping"
  /\ songIndex > Len(genSongs)
  /\ running' = "returned"
  /\ UNCHANGED <<genSongs, songIndex, report>>
  /\ UNCHANGED <<codecVars, scannerVars, baseN, varintRun, fixRun>>

BatchNext ==
  \/ ProcessSong
  \/ Return

BatchSpec == BatchInit /\ [][BatchNext]_vars

\* ------------------------------------------------------------ C15
\* The run has gone through song k.
Reached(k) == songIndex > k \/ (songIndex = k /\ running = "panicked")

\* Song k is reported as failed, with this error of compress.
ReportedFailed(k, err) ==
  \E j \in 1..Len(report) : report[j] = Line(k, "Failed to generate QR code", err)

\* x makes compress fail on the identifiers themselves: one is too long for
\* its slot, has a character outside its alphabet, or is a non-decimal Apple ID.
EncodeFailure(x) ==
  \/ \E f \in {"amazonAlbum", "amazonTrack"} :
       ~ValidChars(x[f], base36Chars) \/ TooLong(x[f], base36Chars, 7)
  \/ ~ValidChars(x.spotify, base62Chars) \/ TooLong(x.spotify, base62Chars, 17)
  \/ ~ValidChars(x.youtube, base64Chars) \/ TooLong(x.youtube, base64Chars, 9)
  \/ ~ValidApple(x.appleAlbum) \/ ~ValidApple(x.appleTrack)

\* C15 (as claimed): when compress fails for one song because an identifier is
\* too long or is an invalid numeral, that song is reported and skipped and
\* every remaining song is still processed: the run goes on to the next song
\* and returns only after the last one.  Refuted: a character outside the
\* alphabet makes decodeBaseN panic, which ends the run.
C15_EncodeFailureSkipped ==
  /\ \A k \in 1..Len(genSongs) :
       (Reached(k) /\ ~genSongs[k].invalid /\ EncodeFailure(genSongs[k].ids)) =>
         /\ running # "panicked"
         /\ \E err \in {"amazon album too long", "amazon track too long", "spotify id too long",
                        "youtube id too long", "invalid apple album id",
                        "invalid apple track id", "panic: invalid char"} :
              ReportedFailed(k, err)
  /\ running = "returned" => songIndex = Len(genSongs) + 1

\* The part of C15 that holds: too-long identifiers and non-decimal Apple IDs
\* are reported and skipped.
ReturnedErrorsSkipped ==
  \A k \in 1..Len(genSongs) :
    (Reached(k) /\ ~genSongs[k].invalid /\ ValidChars(genSongs[k].ids.amazonAlbum, base36Chars)
       /\ EncodeFailure(genSongs[k].ids)) =>
      /\ songIndex > k
      /\ \E err \in {"spotify id too long", "invalid apple album id"} : ReportedFailed(k, err)

\* ------------------------------------------------------------ C16
\* The payload of x fails the round-trip verification inside compress.
VerificationMismatch(x) ==
  compressIn(x).err \in
    { "sanity check failed: decompression error", "sanity check failed: explicit mismatch",
      "sanity check failed: AmazonAlbum mismatch", "sanity check failed: AmazonTrack mismatch",
      "sanity check failed: AppleAlbum mismatch", "sanity check failed: AppleTrack mismatch",
      "sanity check failed: Spotify mismatch", "sanity check failed: YouTube mismatch" }

\* C16 (as claimed): once verifyCompression reports a mismatch for one song,
\* no further song is processed.  Refuted: the mismatch is an ordinary error of
\* compress, printed and skipped like any other.
C16_MismatchHalts ==
  \A k \in 1..Len(genSongs) :
    (~genSongs[k].invalid /\ VerificationMismatch(genSongs[k].ids)) =>
      /\ songIndex <= k + 1
      /\ \A j \in 1..Len(report) : report[j].song <= k

\* What the code does instead: the song is reported with the mismatch and the
\* song after it is processed.
MismatchSkipped ==
  \E k \in 1..Len(genSongs) :
    /\ ReportedFailed(k, "sanity check failed: AppleTrack mismatch")
    /\ \E j \in 1..Len(report) : report[j].song > k


\* ------------------------------------------------------------ C17
\* C17 (as claimed): compress with the Apple album or track given as "0" is
\* accepted whenever it is with the empty string in its place, returns the same
\* bytes, and the decoder returns the empty string for that field.  Refuted:
\* the payload is the same, but verifyCompression compares the decoded ""
\* with "0" and compress returns its mismatch error.
C17_AppleZeroIsAbsent ==
  \A f \in {"appleAlbum", "appleTrack"} :
    (Compressed /\ in[f] = <<"0">>) =>
      LET absent(r) ==
            r.err = "" =>
              /\ res = r
              /\ DecodedByGo => dec[f] = <<>>
      IN  absent(compressIn([in EXCEPT ![f] = <<>>]))

\* What the code does with an Apple album "0" the other identifiers being fine.
AppleZeroRejected ==
  /\ JustCompressed
  /\ in.appleAlbum = <<"0">>
  /\ compressIn([in EXCEPT !.appleAlbum = <<>>]).err = ""
  /\ res = Packed("sanity check failed: AppleAlbum mismatch", <<>>)

\* ------------------------------------------------------------ C18
\* C18 (as claimed): for every Apple album and track value from 1 to 2^64-1
\* written as a plain decimal string, the other identifiers being well formed,
\* compress succeeds and the decoder returns both decimal strings exactly.
\* Refuted by every track of 2^63 or more.
C18_AppleFullRange ==
  (Compressed /\ ValidInput(in) /\ in.appleAlbum # <<>> /\ in.appleTrack # <<>>) =>
    /\ res.err = ""
    /\ DecodedByGo => (dec.appleAlbum = in.appleAlbum /\ dec.appleTrack = in.appleTrack)

\* The part of the range the code supports: any album, and a track below 2^63.
AppleBelow63Supported ==
  (Compressed /\ ValidInput(in) /\ in.appleAlbum # <<>> /\ in.appleTrack # <<>>
     /\ ~IsNeg64(AppleVal(in.appleTrack))) =>
    /\ res.err = ""
    /\ DecodedByGo => (dec.appleAlbum = in.appleAlbum /\ dec.appleTrack = in.appleTrack)


MaxSmall == 70

\* Every numeral of up to MaxDigits symbols is decoded, in each alphabet.
MaxDigits == 3

Alphabets == {base62Chars, base36Chars, base64Chars}

\* n < 65536 as a big natural
NatBytes(n) == StripZeros(Bytes2(n))

\* The small values, and the largest values of 7, 9 and 17 bytes, 2^64 and 256^2.
BaseNValues ==
  { NatBytes(n) : n \in 0..MaxSmall }
    \cup { Repeat(255, 7), Repeat(255, 9), Repeat(255, 17), <<1>> \o Repeat(0, 8), <<1, 0, 0>> }

\* The numerals of up to MaxDigits symbols made of the alphabet's first, second
\* and last symbol, and two longer numerals with and without leading zero symbols.
BaseNNumerals(alphabet) ==
  LET symbols == {alphabet[1], alphabet[2], alphabet[Len(alphabet)]}
  IN  UNION { [1..n -> symbols] : n \in 0..MaxDigits }
        \cup { Repeat(alphabet[Len(alphabet)], 11),
               Repeat(alphabet[1], 4) \o Repeat(alphabet[Len(alphabet)], 7) }

\* Characters that are in none or only some of the alphabets: a lower-case
\* letter and the two last symbols of base64 (not in base36, the latter two not
\* in base62 either), and three characters of no alphabet.
ForeignChars == {"b", "-", "_", "=", "+", " "}

\* Strings with one character outside the alphabet: alone, first, last, or
\* between symbols of the alphabet.
BaseNForeign(alphabet) ==
  LET one == alphabet[2]
      last == alphabet[Len(alphabet)]
  IN  UNION { { <<c>>, <<c, one>>, <<one, c>>, <<last, c, one>>, <<one, last, c>> } :
                c \in { x \in ForeignChars : IndexRune(alphabet, x) = -1 } }

BaseNInit ==
  /\ pc = "baseN"
  /\ \E alphabet \in Alphabets :
       \/ \E v \in BaseNValues : baseN = BaseNGiven(alphabet, "val", v, <<>>)
       \/ \E numeral \in BaseNNumerals(alphabet) :
            baseN = BaseNGiven(alphabet, "str", <<>>, numeral)
       \/ \E foreign \in BaseNForeign(alphabet) :
            baseN = BaseNGiven(alphabet, "foreign", <<>>, foreign)
  /\ data = <<>>
  /\ original = <<>>
  /\ dec = DecodeError(NotRun)
  /\ web = DecodeError(NotRun)
  /\ CompressIdle
  /\ VarintIdle
  /\ FixIdle
  /\ ScannerIdle
  /\ BatchIdle

\* decodeBaseN(encodeBaseN(val, alphabet), alphabet) in Go
EncodeDecode ==
  /\ pc = "baseN"
  /\ baseN.given = "val"
  /\ ~baseN.go.ran
  /\ LET decoded(str, d) == BaseNResult(TRUE, d.panic, str, d.val)
         encoded(str) == decoded(str, decodeBaseN(str, baseN.alphabet))
     IN  baseN' = [baseN EXCEPT !.go = encoded(encodeBaseN(baseN.val, baseN.alphabet))]
  /\ UNCHANGED <<codecVars, scannerVars, batchVars, varintRun, fixRun>>

\* encodeBaseN(decodeBaseN(s, alphabet), alphabet) in Go
DecodeEncode ==
  /\ pc = "baseN"
  /\ baseN.given = "str"
  /\ ~baseN.go.ran
  /\ LET decoded(d) ==
           IF d.panic THEN BaseNResult(TRUE, TRUE, <<>>, <<>>)
           ELSE BaseNResult(TRUE, FALSE, encodeBaseN(d.val, baseN.alphabet), d.val)
     IN  baseN' = [baseN EXCEPT !.go = decoded(decodeBaseN(baseN.str, baseN.alphabet))]
  /\ UNCHANGED <<codecVars, scannerVars, batchVars, varintRun, fixRun>>

\* decodeBaseN(encodeBaseN(val, alphabet), alphabet) in the browser
WebEncodeDecode ==
  /\ pc = "baseN"
  /\ baseN.given = "val"
  /\ ~baseN.web.ran
  /\ LET decoded(str, d) == BaseNResult(TRUE, d.thrown, str, d.val)
         encoded(str) == decoded(str, webDecodeBaseN(str, baseN.alphabet))
     IN  baseN' = [baseN EXCEPT !.web = encoded(webEncodeBaseN(baseN.val, baseN.alphabet))]
  /\ UNCHANGED <<codecVars, scannerVars, batchVars, varintRun, fixRun>>

\* encodeBaseN(decodeBaseN(s, alphabet), alphabet) in the browser
WebDecodeEncode ==
  /\ pc = "baseN"
  /\ baseN.given = "str"
  /\ ~baseN.web.ran
  /\ LET decoded(d) ==
           IF d.thrown THEN BaseNResult(TRUE, TRUE, <<>>, <<>>)
           ELSE BaseNResult(TRUE, FALSE, webEncodeBaseN(d.val, baseN.alphabet), d.val)
     IN  baseN' = [baseN EXCEPT !.web = decoded(webDecodeBaseN(baseN.str, baseN.alphabet))]
  /\ UNCHANGED <<codecVars, scannerVars, batchVars, varintRun, fixRun>>

\* decodeBaseN(s, alphabet) in Go, on a string with a foreign character
DecodeForeign ==
  /\ pc = "baseN"
  /\ baseN.given = "foreign"
  /\ ~baseN.go.ran
  /\ LET decoded(d) == BaseNResult(TRUE, d.panic, <<>>, d.val)
     IN  baseN' = [baseN EXCEPT !.go = decoded(decodeBaseN(baseN.str, baseN.alphabet))]
  /\ UNCHANGED <<codecVars, scannerVars, batchVars, varintRun, fixRun>>

\* decodeBaseN(s, alphabet) in the browser, on a string with a foreign character
WebDecodeForeign ==
  /\ pc = "baseN"
  /\ baseN.given = "foreign"
  /\ ~baseN.web.ran
  /\ LET decoded(d) == BaseNResult(TRUE, d.thrown, <<>>, d.val)
     IN  baseN' = [baseN EXCEPT !.web = decoded(webDecodeBaseN(baseN.str, baseN.alphabet))]
  /\ UNCHANGED <<codecVars, scannerVars, batchVars, varintRun, fixRun>>

BaseNNext ==
  \/ EncodeDecode
  \/ DecodeEncode
  \/ WebEncodeDecode
  \/ WebDecodeEncode
  \/ DecodeForeign
  \/ WebDecodeForeign

BaseNSpec == BaseNInit /\ [][BaseNNext]_vars

\* ------------------------------------------------------------ C20
\* s with its leading zero symbols removed
StripLeading(s, zero) ==
  IF \A i \in 1..Len(s) : s[i] = zero THEN <<>>
  ELSE SubSeq(s, CHOOSE i \in 1..Len(s) : s[i] # zero /\ \A j \in 1..(i - 1) : s[j] = zero,
              Len(s))

\* str is the shortest numeral of val: the first symbol once for zero, and no
\* leading zero symbol otherwise.
Shortest(str, val, zero) ==
  IF val = <<>> THEN str = <<zero>> ELSE (str # <<>> /\ str[1] # zero)

\* What the value half of the claim says of the result r of a pair of helpers.
ValueRoundTrip(r) ==
  (baseN.given = "val" /\ r.ran) =>
    /\ ~r.panic
    /\ r.val = baseN.val
    /\ Shortest(r.str, baseN.val, baseN.alphabet[1])

\* C20 (as claimed): for each alphabet and every value v,
\* decodeBaseN(encodeBaseN(v)) = v and encodeBaseN(v) is the shortest numeral,
\* zero being the first symbol once; for every numeral s over the alphabet,
\* encodeBaseN(decodeBaseN(s)) is s with its leading zero symbols removed.
C20_StripsLeadingZeros ==
  pc = "baseN" =>
    \A r \in {baseN.go, baseN.web} :
      /\ ValueRoundTrip(r)
      /\ (baseN.given = "str" /\ r.ran) =>
           /\ ~r.panic
           /\ r.str = StripLeading(baseN.str, baseN.alphabet[1])

\* C20 (amended): the same, except that a numeral made of zero symbols only,
\* the empty string included, comes back as the first symbol once.
C20_BaseNBijection ==
  pc = "baseN" =>
    \A r \in {baseN.go, baseN.web} :
      /\ ValueRoundTrip(r)
      /\ (baseN.given = "str" /\ r.ran) =>
           /\ ~r.panic
           /\ r.str = IF StripLeading(baseN.str, baseN.alphabet[1]) = <<>>
                      THEN <<baseN.alphabet[1]>>
                      ELSE StripLeading(baseN.str, baseN.alphabet[1])

\* C20 witness: both pairs of helpers have run on a numeral with a leading zero
\* symbol and a further symbol, and returned it without the leading zeros.
C20_Witness ==
  /\ pc = "baseN"
  /\ baseN.given = "str"
  /\ baseN.go.ran
  /\ baseN.web.ran
  /\ Len(baseN.str) >= 2
  /\ baseN.str[1] = baseN.alphabet[1]
  /\ baseN.go.str # baseN.str
  /\ Len(baseN.go.str) >= 2

\* C20 witness of the value half: a value of two digits came back.
C20_ValueWitness ==
  /\ pc = "baseN"
  /\ baseN.given = "val"
  /\ baseN.go.ran
  /\ baseN.web.ran
  /\ Len(baseN.go.str) = 2
  /\ baseN.go.val = baseN.val


\* ------------------------------------------------------------ C21
\* C21: decodeBaseN on a string with a character outside the given alphabet
\* fails, by a panic in the generator and a thrown Error in the browser, and
\* returns no value, wherever the character stands and even when it is a symbol
\* of another alphabet.
C21_ForeignCharRejected ==
  (pc = "baseN" /\ baseN.given = "foreign") =>
    \A r \in {baseN.go, baseN.web} :
      r.ran => (r.panic /\ r.val = <<>>)

\* C21 witness: both decoders have rejected a base-36 string that ends in a
\* lower-case letter, a symbol of base62.
C21_Witness ==
  /\ pc = "baseN"
  /\ baseN.given = "foreign"
  /\ baseN.alphabet = base36Chars
  /\ baseN.str = <<"1", "Z", "b">>
  /\ baseN.go.ran /\ baseN.go.panic
  /\ baseN.web.ran /\ baseN.web.panic

\* C21 witness for a Spotify ID: '-' is rejected in base62.
C21_DashInBase62 ==
  /\ pc = "baseN"
  /\ baseN.alphabet = base62Chars
  /\ baseN.str = <<"-", "1">>
  /\ baseN.go.ran /\ baseN.go.panic


\* ------------------------------------------------------------ the varints
\* The two Apple varints on their own: the generator appends the album with
\* binary.PutUvarint and the delta with binary.PutVarint, the browser reads them
\* back with readUvarint and readVarint at the offset where they were written.

\* 2^e as a big natural
Pow2Bytes(e) == <<2 ^ (e % 8)>> \o Repeat(0, e \div 8)

\* Every power of two of a 64-bit word and its predecessor (the values where
\* the LEB128 length changes among them), the largest word, and the album of
\* the scenario.
VarintNats ==
  { Pow2Bytes(e) : e \in 0..63 }
    \cup { BigSub(Pow2Bytes(e), <<1>>) : e \in 0..63 }
    \cup { Repeat(255, 8), decodeBaseN(Scenario.appleAlbum, decimalChars).val }

\* uint64 album values
AlbumWords == { Word64(x) : x \in VarintNats }

\* int64 deltas: the same words (those from 2^63 on are negative) and their
\* complements -(x + 1)
DeltaWords == AlbumWords \cup { NotBytes(w) : w \in AlbumWords }

\* The buffer before the varint: the two Amazon groups, or those and an album
\* varint of two bytes.
VarintLeads == { Repeat(0, 14), Repeat(0, 14) \o <<255, 1>> }

VarintInit ==
  /\ pc = "varint"
  /\ \E lead \in VarintLeads :
       \/ \E w \in AlbumWords : varintRun = VarintGiven("uvarint", w, lead)
       \/ \E w \in DeltaWords : varintRun = VarintGiven("varint", w, lead)
  /\ data = <<>>
  /\ original = <<>>
  /\ dec = DecodeError(NotRun)
  /\ web = DecodeError(NotRun)
  /\ CompressIdle
  /\ ScannerIdle
  /\ BatchIdle
  /\ BaseNIdle
  /\ FixIdle

\* n := binary.PutUvarint(temp, appAlbVal); buf = append(buf, temp[:n]...)
WriteUvarint ==
  /\ pc = "varint"
  /\ varintRun.kind = "uvarint"
  /\ ~varintRun.written
  /\ LET appended(bytes) ==
           [varintRun EXCEPT !.buf = @ \o bytes, !.n = Len(bytes), !.written = TRUE]
     IN  varintRun' = appended(PutUvarint(varintRun.word))
  /\ UNCHANGED <<codecVars, scannerVars, batchVars, baseN, fixRun>>

\* n = binary.PutVarint(temp, delta); buf = append(buf, temp[:n]...)
WriteVarint ==
  /\ pc = "varint"
  /\ varintRun.kind = "varint"
  /\ ~varintRun.written
  /\ LET appended(bytes) ==
           [varintRun EXCEPT !.buf = @ \o bytes, !.n = Len(bytes), !.written = TRUE]
     IN  varintRun' = appended(PutVarint(varintRun.word))
  /\ UNCHANGED <<codecVars, scannerVars, batchVars, baseN, fixRun>>

\* const [appAlbVal, n1] = readUvarint(data, idx)
ReadUvarint ==
  /\ pc = "varint"
  /\ varintRun.kind = "uvarint"
  /\ varintRun.written
  /\ ~varintRun.read.ran
  /\ LET got(r) == VarintRead(TRUE, r.thrown, FALSE, r.val, r.n)
     IN  varintRun' =
           [varintRun EXCEPT !.read = got(readUvarint(varintRun.buf, Len(varintRun.lead)))]
  /\ UNCHANGED <<codecVars, scannerVars, batchVars, baseN, fixRun>>

\* const [delta, n2] = readVarint(data, idx)
ReadVarint ==
  /\ pc = "varint"
  /\ varintRun.kind = "varint"
  /\ varintRun.written
  /\ ~varintRun.read.ran
  /\ LET got(r) == VarintRead(TRUE, r.thrown, r.neg, r.mag, r.n)
     IN  varintRun' =
           [varintRun EXCEPT !.read = got(readVarint(varintRun.buf, Len(varintRun.lead)))]
  /\ UNCHANGED <<codecVars, scannerVars, batchVars, baseN, fixRun>>

VarintNext ==
  \/ WriteUvarint
  \/ WriteVarint
  \/ ReadUvarint
  \/ ReadVarint

VarintSpec == VarintInit /\ [][VarintNext]_vars

\* ------------------------------------------------------------ C22
\* The integer an int64 word holds, as a sign and a magnitude.
SignedOf(w) ==
  [neg |-> IsNeg64(w),
   mag |-> IF IsNeg64(w) THEN BigAdd(WordNat(NotBytes(w)), <<1>>) ELSE WordNat(w)]

\* The low bit of the code a varint holds is the low bit of its first byte.
CodeIsOdd == varintRun.buf[Len(varintRun.lead) + 1] % 2 = 1

\* C22: the delta is zig-zag mapped (a non-negative value to an even code, a
\* negative one to an odd code) and written as LEB128; for every unsigned 64-bit
\* album value and every signed 64-bit delta the browser's readUvarint and
\* readVarint, applied to the bytes the encoder wrote, return the value written
\* and consume as many bytes as the encoder wrote.
C22_VarintAgreement ==
  (pc = "varint" /\ varintRun.written) =>
    /\ varintRun.n \in 1..10
    /\ varintRun.kind = "varint" => (CodeIsOdd <=> IsNeg64(varintRun.word))
    /\ varintRun.read.ran =>
         /\ ~varintRun.read.thrown
         /\ varintRun.read.n = varintRun.n
         /\ varintRun.kind = "uvarint" =>
              (~varintRun.read.neg /\ varintRun.read.mag = WordNat(varintRun.word))
         /\ varintRun.kind = "varint" =>
              /\ varintRun.read.neg = SignedOf(varintRun.word).neg
              /\ varintRun.read.mag = SignedOf(varintRun.word).mag

\* C22 witness: the smallest int64, written as a ten-byte varint with an odd
\* code, has been read back as -2^63.
C22_Witness ==
  /\ pc = "varint"
  /\ varintRun.kind = "varint"
  /\ varintRun.word = <<128, 0, 0, 0, 0, 0, 0, 0>>
  /\ varintRun.n = 10
  /\ CodeIsOdd
  /\ varintRun.read.ran
  /\ varintRun.read.neg
  /\ varintRun.read.mag = <<128, 0, 0, 0, 0, 0, 0, 0>>
  /\ varintRun.read.n = 10

\* C22 witness for the album: the largest uint64 has been read back from ten
\* bytes.
C22_AlbumWitness ==
  /\ pc = "varint"
  /\ varintRun.kind = "uvarint"
  /\ varintRun.word = Repeat(255, 8)
  /\ varintRun.read.ran
  /\ varintRun.read.mag = Repeat(255, 8)
  /\ varintRun.read.n = 10


\* ------------------------------------------------------------ C23
\* The two Apple integers of a buffer: the album as a natural and the delta as
\* a sign and a magnitude.
AppleIntegers(buf) ==
  LET delta(u, v) == [album |-> WordNat(u.val), delta |-> SignedOf(v.val)]
      second(u) == delta(u, Varint(Slice(buf, 14 + u.n, Len(buf))))
  IN  second(Uvarint(Slice(buf, 14, Len(buf))))

\* album + delta over the integers, as a sign and a magnitude
IntegerSum(album, delta) ==
  IF ~delta.neg THEN [neg |-> FALSE, mag |-> BigAdd(album, delta.mag)]
  ELSE IF BigLess(album, delta.mag)
       THEN [neg |-> TRUE, mag |-> BigSub(delta.mag, album)]
       ELSE [neg |-> FALSE, mag |-> BigSub(album, delta.mag)]

\* The decimal string of an integer, and the empty string for zero.
DecimalOrEmpty(x) ==
  IF x.mag = <<>> THEN <<>>
  ELSE (IF x.neg THEN <<"-">> ELSE <<>>) \o encodeBaseN(x.mag, decimalChars)

TrackOfSum(buf) ==
  LET sum(a) == DecimalOrEmpty(IntegerSum(a.album, a.delta)) IN sum(AppleIntegers(buf))

Decodable(buf) == decompress(buf).err = ""

\* C23 (as claimed): for every decodable buffer each decoder returns, as the
\* Apple track, the decimal string of album + delta whenever that integer is
\* not zero, and the empty string only when it is zero.
C23_TrackReconstruction ==
  (pc = "received" /\ Decodable(original)) =>
    /\ GoDecoded => dec.appleTrack = TrackOfSum(original)
    /\ (WebDecoded /\ web.err = "") => web.appleTrack = TrackOfSum(original)

\* What does hold of the Go decoder: the sum is taken modulo 2^64 and read as an
\* int64, and the track is its decimal string when it is positive, the empty
\* string when it is zero or negative.
GoTrackWhenPositive ==
  (GoDecoded /\ dec.err = "") =>
    LET wrapped(u, v) == Add64(u.val, v.val)
        second(u) == wrapped(u, Varint(Slice(original, 14 + u.n, Len(original))))
        kept(w) == IF w # Zero64 /\ ~IsNeg64(w)
                   THEN dec.appleTrack = encodeBaseN(WordNat(w), decimalChars)
                   ELSE dec.appleTrack = <<>>
    IN  kept(second(Uvarint(Slice(original, 14, Len(original)))))

\* What does hold of the browser decoder: the sum is exact, and the track is its
\* decimal string when it is positive, the empty string when it is zero or
\* negative.
WebTrackWhenPositive ==
  (WebDecoded /\ web.err = "" /\ Decodable(original)) =>
    LET kept(x) == IF x.neg THEN web.appleTrack = <<>>
                   ELSE web.appleTrack = DecimalOrEmpty(x)
        sum(a) == kept(IntegerSum(a.album, a.delta))
    IN  sum(AppleIntegers(original))

\* Both decoders have returned no Apple track for the album 5 and the delta -10.
NegativeTrackDropped ==
  /\ GoDecoded /\ WebDecoded
  /\ dec.err = "" /\ web.err = ""
  /\ dec.appleAlbum = <<"5">>
  /\ TrackOfSum(original) = <<"-", "5">>
  /\ dec.appleTrack = <<>>
  /\ web.appleTrack = <<>>


\* ------------------------------------------------------------ C24
\* buf with bit 7 of byte 0 flipped
FlipBit7(buf) == <<(buf[1] + 128) % 256>> \o Tail(buf)

\* flipped is accepted and differs from decoded in the explicit flag only
OnlyExplicitDiffers(decoded, flipped) ==
  /\ flipped.err = ""
  /\ flipped.explicit = ~decoded.explicit
  /\ [flipped EXCEPT !.explicit = decoded.explicit] = decoded

\* C24: for every buffer that decompress accepts, in the generator and in the
\* browser, the same buffer with bit 7 of byte 0 flipped is accepted too, and
\* decodes to the opposite explicit flag and the same six identifiers.
C24_ExplicitBitMasked ==
  pc = "received" =>
    /\ (GoDecoded /\ dec.err = "") =>
         OnlyExplicitDiffers(dec, decompress(FlipBit7(original)))
    /\ (WebDecoded /\ web.err = "") =>
         OnlyExplicitDiffers(web, webDecompress(FlipBit7(original)))

\* C24 witness: both decoders have accepted a buffer with bit 7 of byte 0 set,
\* and returned the explicit flag and the Amazon album of the scenario.
C24_Witness ==
  /\ GoDecoded /\ WebDecoded
  /\ original # <<>>
  /\ original[1] >= 128
  /\ dec.err = "" /\ web.err = ""
  /\ dec.explicit /\ web.explicit
  /\ dec.amazonAlbum = Scenario.amazonAlbum
  /\ web.amazonAlbum = Scenario.amazonAlbum
  /\ ~decompress(FlipBit7(original)).explicit
  /\ decompress(FlipBit7(original)).amazonAlbum = Scenario.amazonAlbum


\* ------------------------------------------------------------ C25
\* The panel with the explicit-content notice and nothing else.
ExplicitNotice == Panel("block", <<"EXPLICIT CONTENT">>)

\* The page while the notice is up: the scanner stopped, the video and the
\* start button hidden, the notice and the reset button shown.
NoticeShown ==
  /\ resultDiv = ExplicitNotice
  /\ resetBtn = "block"
  /\ ~scanning
  /\ videoStream = "null"
  /\ videoContainer = "none"
  /\ startBtn = "none"

\* C25: a step in which tick decodes a payload with explicit = true while the
\* allow-explicit checkbox is unchecked renders no platform link: it stops the
\* scanner and leaves only the explicit-content notice and the reset button
\* shown; and while the notice is up no step changes the page or decodes
\* anything, except reset, which empties and hides the panel and hides the
\* reset button.
C25_ExplicitGated ==
  [][ /\ ( /\ scanning
           /\ ticks' = ticks - 1
           /\ web'.err = ""
           /\ web'.explicit
           /\ ~allowExplicit )
         => NoticeShown'
      /\ NoticeShown
         => \/ NoticeShown' /\ web' = web /\ original' = original
            \/ resultDiv' = Panel("none", <<>>) /\ resetBtn' = "none" ]_vars

\* C25 witness: the notice is up for a card that has links on all four
\* platforms.
C25_Witness ==
  /\ pc = "scanner"
  /\ NoticeShown
  /\ ~allowExplicit
  /\ web.err = ""
  /\ web.explicit
  /\ Len(getAllLinks(web)) = 4


\* ------------------------------------------------------------ C26
\* The Base36 value of s is at least 2^55 and still fits seven bytes: it needs
\* bit 7 of byte 0 of the Amazon album group.
NeedsBit7(s) ==
  /\ ValidChars(s, base36Chars)
  /\ ValueBytes(s, base36Chars) = 7
  /\ decodeBaseN(s, base36Chars).val[1] >= 128

\* C26: for an Amazon album whose Base36 value is 2^55 or more and fits seven
\* bytes, compress returns an error and no buffer, with explicit = true and
\* with explicit = false; and no buffer compress returns decodes to an explicit
\* flag or an Amazon album other than the input's.
C26_FlagNeverOverlaps ==
  /\ (Compressed /\ NeedsBit7(in.amazonAlbum)) => (res.err # "" /\ res.buf = <<>>)
  /\ (pc = "toggled" /\ NeedsBit7(in.amazonAlbum)) => (alt.err # "" /\ alt.buf = <<>>)
  /\ (JustCompressed /\ res.err = "") =>
       LET same(d) ==
             /\ d.err = ""
             /\ d.explicit = in.explicit
             /\ d.amazonAlbum = canonicalId("amazonAlbum", in.amazonAlbum)
       IN  same(decompress(res.buf))

\* C26 witness: the album 2^55 has been refused with explicit = true and with
\* explicit = false, both times by the verification.
C26_Witness ==
  /\ pc = "toggled"
  /\ in.amazonAlbum = <<"9", "U", "R", "5", "4", "U", "T", "4", "9", "V", "K">>
  /\ NeedsBit7(in.amazonAlbum)
  /\ in.explicit
  /\ res.err = "sanity check failed: AmazonAlbum mismatch"
  /\ alt.err = "sanity check failed: explicit mismatch"

\* C26 witness for the largest seven-byte album, 2^56 - 1.
C26_LargestWitness ==
  /\ pc = "toggled"
  /\ in.amazonAlbum = <<"J", "P", "I", "A", "9", "P", "M", "8", "J", "R", "3">>
  /\ NeedsBit7(in.amazonAlbum)
  /\ res.err # ""
  /\ alt.err # ""


\* ------------------------------------------------------------ C27
Recompressed == pc = "received" /\ res.err # NotRun

\* C27: for every buffer the Go decompress accepts, compress of the explicit
\* flag and the identifiers it returned succeeds, and decompress of that payload
\* returns the same flag and identifiers, also when the buffer is none the
\* encoder writes.
C27_DecoderOutputFixedPoint ==
  Recompressed =>
    /\ in = [f \in Fields |-> dec[f]]
    /\ res.err = ""
    /\ decompress(res.buf) = dec

\* C27 witness: a buffer with every fixed group full of ones, a two-byte varint
\* for the album 5 and a negative track has been decoded and compressed again,
\* into a payload other than the buffer.
C27_Witness ==
  /\ Recompressed
  /\ original = Repeat(255, 14) \o <<133, 0>> \o <<147, 0>> \o Repeat(255, 26)
  /\ dec.explicit
  /\ Len(dec.amazonTrack) = 11
  /\ Len(dec.spotify) = 23
  /\ dec.appleAlbum = <<"5">>
  /\ dec.appleTrack = <<>>
  /\ res.err = ""
  /\ res.buf # original

\* C27 witness for the album 2^63 + 5 with the track 4.
C27_LargeAlbumWitness ==
  /\ Recompressed
  /\ dec.appleAlbum = LargeAppleAlbum
  /\ dec.appleTrack = <<"4">>
  /\ res.err = ""


\* ------------------------------------------------------------ C28
\* An Apple varint of bytes overflows 64 bits: binary.Uvarint reports a
\* negative count for the album, or for the delta after a well-formed album.
Overlong(bytes) ==
  /\ Len(bytes) >= 14
  /\ LET delta(u, v) == u.n < 0 \/ (u.n > 0 /\ v.n < 0)
         second(u) ==
           delta(u, IF u.n > 0 THEN Uvarint(Slice(bytes, 14 + u.n, Len(bytes))) ELSE u)
     IN  second(Uvarint(Slice(bytes, 14, Len(bytes))))

\* C28 (as claimed): a buffer with an Apple varint that ends inside the buffer
\* but holds more than 64 bits makes the Go decompress and the browser
\* decompress fail.  Refuted by the browser decoder, whose readUvarint has no
\* limit.
C28_OverlongRejected ==
  (pc = "received" /\ Overlong(original)) =>
    /\ GoDecoded => dec.err # ""
    /\ WebDecoded => web.err # ""

\* The Go decoder does reject them ...
GoRejectsOverlong ==
  (GoDecoded /\ Overlong(original)) =>
    dec.err \in {"bad varint app alb", "bad varint app trk"}

\* ... and the browser decoder returns identifiers, among them an Apple album
\* above 2^64.
WebReturnsOverlongAlbum ==
  /\ GoDecoded /\ WebDecoded
  /\ Overlong(original)
  /\ dec.err = "bad varint app alb"
  /\ web.err = ""
  /\ Len(web.appleAlbum) >= 20
  /\ web.spotify = Scenario.spotify


\* ------------------------------------------------------------ C29
\* Bytes that may follow the YouTube group.
TrailingBytes == { <<0>>, <<255>>, <<0, 255>>, Repeat(170, 30) }

\* The count of bytes the Go decoder consumes: 7 + 7 + u + v + 17 + 9.
Consumed(bytes) ==
  LET total(u, v) == 7 + 7 + u.n + v.n + 17 + 9
      second(u) == total(u, Uvarint(Slice(bytes, 14 + u.n, Len(bytes))))
  IN  second(Uvarint(Slice(bytes, 14, Len(bytes))))

\* The same count for the browser decoder.
WebConsumed(bytes) ==
  LET total(u, v) == 7 + 7 + u.n + v.n + 17 + 9
      second(u) == total(u, readUvarint(bytes, 14 + u.n))
  IN  second(readUvarint(bytes, 14))

\* C29: the result of decompress depends only on the bytes it consumes,
\* 7 + 7 + u + v + 17 + 9: a buffer that decodes is at least that long, decodes
\* to the same explicit flag and identifiers when cut to that length, and to the
\* same again, with no error, when any bytes are appended; in the Go decoder and
\* in the browser decoder.
C29_TrailingBytesIgnored ==
  pc = "received" =>
    /\ (GoDecoded /\ dec.err = "") =>
         /\ Len(original) >= Consumed(original)
         /\ decompress(Slice(original, 0, Consumed(original))) = dec
         /\ \A t \in TrailingBytes : decompress(original \o t) = dec
    /\ (WebDecoded /\ web.err = "") =>
         /\ Len(original) >= WebConsumed(original)
         /\ webDecompress(Slice(original, 0, WebConsumed(original))) = web
         /\ \A t \in TrailingBytes : webDecompress(original \o t) = web

\* C29 witness: both decoders have decoded the 46 bytes of the scenario
\* followed by two more bytes, and returned the scenario.
C29_Witness ==
  /\ GoDecoded /\ WebDecoded
  /\ original = compressIn(Scenario).buf \o <<0, 255>>
  /\ Len(original) = Consumed(original) + 2
  /\ dec = Canonical(Scenario)
  /\ web = Canonical(Scenario)


\* ------------------------------------------------------------ fixLinks
\* strings.Split(s, sep) for a one-character sep: the substrings between the
\* separators, one more than there are separators.
RECURSIVE Split(_, _)
Split(s, sep) ==
  IF \A i \in 1..Len(s) : s[i] # sep THEN <<s>>
  ELSE LET cut(k) == <<SubSeq(s, 1, k - 1)>> \o Split(SubSeq(s, k + 1, Len(s)), sep)
       IN  cut(CHOOSE i \in 1..Len(s) : s[i] = sep /\ \A j \in 1..(i - 1) : s[j] # sep)

\* The URLs fixLinks validates, by site and the identifiers put into them.
PageURL(site, id) == [site |-> site, id |-> id]

\* "https://music.apple.com/us/album/_/%s?i=%s", parts[0], parts[1]
appleURL(parts) == PageURL("music.apple.com", <<parts[1], parts[2]>>)

\* "https://music.amazon.com/embed/%s", parts[1]
amazonURL(parts) == PageURL("music.amazon.com", <<parts[2]>>)

\* "https://music.youtube.com/watch?v=" + id
youtubeURL(id) == PageURL("music.youtube.com", <<id>>)

\* validatePageContent / validateYoutubeViaOEmbed: nil exactly when the page is
\* fetched and names the title and an artist.
validates(run, url) == url \in run.pages

\* fixAppleMusic, fixAmazonMusic, fixYoutubeMusic: the first search candidate
\* that validates replaces the field and nil is returned; errNoResults, or the
\* search's error, when there is none.
fixField(run, field) ==
  IF run.results[field] = <<>>
  THEN [run EXCEPT !.isValid = FALSE, !.searched = @ \cup {field}]
  ELSE [run EXCEPT !.song[field] = run.results[field], !.searched = @ \cup {field}]

\* if shouldFix { if err := fix...(client, song); err != nil { isValid = false } }
fixWhen(run, field, shouldFix, next) ==
  IF shouldFix THEN [fixField(run, field) EXCEPT !.at = next] ELSE [run EXCEPT !.at = next]

\* fixLinks, "Apple Music"
shouldFixApple(run) ==
  LET checked(parts) == ~(Len(parts) = 2 /\ validates(run, appleURL(parts)))
  IN  checked(Split(run.song.AppleMusic, ":"))

\* fixLinks, "Amazon Music"
shouldFixAmazon(run) ==
  LET checked(parts) == ~(Len(parts) = 2 /\ validates(run, amazonURL(parts)))
  IN  checked(Split(run.song.AmazonMusic, ":"))

\* fixLinks, "YouTube Music": the field is split at ":" like the other two,
\* and parts[1] goes into the URL.
shouldFixYoutube(run) ==
  LET checked(parts) == ~(Len(parts) = 2 /\ validates(run, youtubeURL(parts[2])))
  IN  checked(Split(run.song.YoutubeMusic, ":"))

\* Identifiers as fetchLinks hands them over: "album:track" for Apple Music
\* and Amazon Music, the bare video ID for YouTube Music; and absent or
\* differently shaped ones.
AppleGiven ==
  { <<>>, <<"1", "2", ":", "3", "4">>, <<"1", "2">>, <<"1", ":", "2", ":", "3">> }

AmazonGiven ==
  { <<>>, <<"B", "1", ":", "B", "2">>, <<"B", "1">>, <<"B", "1", ":", "B", "2", ":", "B", "3">> }

YoutubeGiven == { <<>>, Scenario.youtube, <<"v", ":">> \o Scenario.youtube }

\* The pages that may validate: those of the identifiers above.
FixPages ==
  { appleURL(<<<<"1", "2">>, <<"3", "4">>>>),
    amazonURL(<<<<"B", "1">>, <<"B", "2">>>>),
    youtubeURL(Scenario.youtube) }

\* What a search may come back with.
FixResults ==
  { Song(a, m, y) : a \in {<<>>, <<"5", "6", ":", "7", "8">>},
                    m \in {<<>>, <<"B", "9", ":", "B", "9">>},
                    y \in {<<>>, Repeat("A", 11)} }

FixInit ==
  /\ pc = "fix"
  /\ \E a \in AppleGiven, m \in AmazonGiven, y \in YoutubeGiven,
        pages \in SUBSET FixPages, results \in FixResults :
       fixRun = FixGiven("apple", Song(a, m, y), pages, results)
  /\ data = <<>>
  /\ original = <<>>
  /\ dec = DecodeError(NotRun)
  /\ web = DecodeError(NotRun)
  /\ CompressIdle
  /\ ScannerIdle
  /\ BatchIdle
  /\ BaseNIdle
  /\ VarintIdle

\* fixLinks, from "isValid := true" to the end of the Apple Music block
FixApple ==
  /\ pc = "fix"
  /\ fixRun.at = "apple"
  /\ fixRun' = fixWhen(fixRun, "AppleMusic", shouldFixApple(fixRun), "amazon")
  /\ UNCHANGED <<codecVars, scannerVars, batchVars, baseN, varintRun>>

\* fixLinks, the Amazon Music block
FixAmazon ==
  /\ pc = "fix"
  /\ fixRun.at = "amazon"
  /\ fixRun' = fixWhen(fixRun, "AmazonMusic", shouldFixAmazon(fixRun), "youtube")
  /\ UNCHANGED <<codecVars, scannerVars, batchVars, baseN, varintRun>>

\* fixLinks, the YouTube Music block
FixYoutube ==
  /\ pc = "fix"
  /\ fixRun.at = "youtube"
  /\ fixRun' = fixWhen(fixRun, "YoutubeMusic", shouldFixYoutube(fixRun), "return")
  /\ UNCHANGED <<codecVars, scannerVars, batchVars, baseN, varintRun>>

\* return isValid
FixReturn ==
  /\ pc = "fix"
  /\ fixRun.at = "return"
  /\ fixRun' = [fixRun EXCEPT !.at = "returned",
                              !.returned = IF fixRun.isValid THEN "true" ELSE "false"]
  /\ UNCHANGED <<codecVars, scannerVars, batchVars, baseN, varintRun>>

FixNext ==
  \/ FixApple
  \/ FixAmazon
  \/ FixYoutube
  \/ FixReturn

FixSpec == FixInit /\ [][FixNext]_vars

\* ------------------------------------------------------------ C30
FixFields == {"AppleMusic", "AmazonMusic", "YoutubeMusic"}

\* The identifier has the shape the pipeline gives it: two parts around one
\* ":" for Apple Music and Amazon Music, a bare video ID for YouTube Music.
WellShaped(field, id) ==
  IF field = "YoutubeMusic" THEN id # <<>> /\ Len(Split(id, ":")) = 1
  ELSE Len(Split(id, ":")) = 2

\* The page of a well-shaped identifier.
PageOf(field, id) ==
  IF field = "AppleMusic" THEN appleURL(Split(id, ":"))
  ELSE IF field = "AmazonMusic" THEN amazonURL(Split(id, ":"))
  ELSE youtubeURL(id)

\* The identifier given for the field is present, well shaped, and its page
\* validates.
PassesValidation(field) ==
  /\ fixRun.given[field] # <<>>
  /\ WellShaped(field, fixRun.given[field])
  /\ PageOf(field, fixRun.given[field]) \in fixRun.pages

FixReturned == pc = "fix" /\ fixRun.at = "returned"

\* C30 (as claimed): for each of Apple Music, Amazon Music and YouTube Music,
\* an identifier that is present and passes validation is left unchanged and no
\* replacement is searched for it; a replacement is searched only when the
\* identifier is missing, malformed or fails validation; and fixLinks returns
\* false exactly when a replacement search failed.  Refuted for YouTube Music.
C30_RepairsOnlyBroken ==
  FixReturned =>
    /\ \A field \in FixFields :
         /\ PassesValidation(field) =>
              (field \notin fixRun.searched /\ fixRun.song[field] = fixRun.given[field])
         /\ field \in fixRun.searched => ~PassesValidation(field)
    /\ fixRun.returned = "false" <=>
         \E field \in fixRun.searched : fixRun.results[field] = <<>>

\* What does hold: the claim for Apple Music and Amazon Music, and the
\* returned value.
AppleAmazonRepairedOnlyBroken ==
  FixReturned =>
    /\ \A field \in {"AppleMusic", "AmazonMusic"} :
         /\ PassesValidation(field) =>
              (field \notin fixRun.searched /\ fixRun.song[field] = fixRun.given[field])
         /\ field \in fixRun.searched => ~PassesValidation(field)
    /\ fixRun.returned = "false" <=>
         \E field \in fixRun.searched : fixRun.results[field] = <<>>

\* A bare video ID is always searched for again, whatever its page says.
BareVideoIdAlwaysSearched ==
  (FixReturned /\ fixRun.given.YoutubeMusic # <<>>
     /\ WellShaped("YoutubeMusic", fixRun.given.YoutubeMusic)) =>
    "YoutubeMusic" \in fixRun.searched

\* A video ID whose page validates has been replaced by a search result.
ValidVideoIdReplaced ==
  /\ FixReturned
  /\ PassesValidation("YoutubeMusic")
  /\ fixRun.given.YoutubeMusic = Scenario.youtube
  /\ fixRun.song.YoutubeMusic = Repeat("A", 11)
  /\ fixRun.returned = "true"

\* A video ID whose page validates is kept, but the song is reported invalid.
ValidVideoIdFailsSong ==
  /\ FixReturned
  /\ PassesValidation("YoutubeMusic")
  /\ fixRun.searched = {"YoutubeMusic"}
  /\ fixRun.song = fixRun.given
  /\ fixRun.returned = "false"

====
